---- MODULE Spec2Model ----
(***************************************************************************)
(* Payment initiation, webhook reconciliation, order expiration, the       *)
(* ghost-order token codec and the geolocation-filtered product listing of *)
(* the storefront backend.                                                 *)
(*                                                                         *)
(* Texts that travel through the token codec (ids, links, names) are       *)
(* sequences of one-character strings; everything else uses plain strings. *)
(***************************************************************************)
EXTENDS Integers, Sequences, FiniteSets, TLC

\* JavaScript null / undefined of a nullable text field.
Null == <<"n", "u", "l", "l", "!">>

(***************************************************************************)
(* Bounds of the model.                                                    *)
(***************************************************************************)
\* Orders that initiate-payment may persist.
MaxOrders == 1
\* Webhook handler executions that may be in flight at the same time.
MaxWebhooks == 2
\* initiate-payment requests that may be in flight at the same time.
MaxRequests == 1
\* Orders in the table that the expiration job is run on by itself.
MaxStored == 3
\* Rows that the products table may come to hold.
MaxProducts == 2
\* createPixPayment executions that may be under way at the same time.
MaxCalls == 2
\* The time, in seconds, up to which the clock runs.
MaxClock == 900

(***************************************************************************)
(* Text helpers.                                                           *)
(***************************************************************************)
\* String.prototype.startsWith
StartsWith(text, prefix) ==
    /\ Len(text) >= Len(prefix)
    /\ SubSeq(text, 1, Len(prefix)) = prefix

\* String.prototype.substring(n): the text from 0-based offset n on.
Substring(text, n) == SubSeq(text, n + 1, Len(text))

\* String.prototype.split(sep) for a one-character separator: the parts
\* between consecutive separators, empty parts included.
Split(text, sep) ==
    LET at     == {i \in 1..Len(text) : text[i] = sep}
        n      == Cardinality(at)
        pos(k) == IF k = 0 THEN 0
                  ELSE IF k = n + 1 THEN Len(text) + 1
                  ELSE CHOOSE p \in at : Cardinality({q \in at : q < p}) = k - 1
    IN  [k \in 1..(n + 1) |-> SubSeq(text, pos(k - 1) + 1, pos(k) - 1)]

RECURSIVE Join(_, _)
\* Array.prototype.join(sep)
Join(parts, sep) ==
    IF parts = <<>> THEN <<>>
    ELSE IF Len(parts) = 1 THEN parts[1]
    ELSE parts[1] \o <<sep>> \o Join(Tail(parts), sep)

\* The printable ASCII characters, code 32 to 126, in code order (code 96 is
\* spelled out: it cannot be written as a one-character string).
AsciiPrintable ==
    << " ", "!", "\"", "#", "$", "%", "&", "'", "(", ")", "*", "+", ",", "-", ".", "/",
       "0", "1", "2", "3", "4", "5", "6", "7", "8", "9", ":", ";", "<", "=", ">", "?",
       "@", "A", "B", "C", "D", "E", "F", "G", "H", "I", "J", "K", "L", "M", "N", "O",
       "P", "Q", "R", "S", "T", "U", "V", "W", "X", "Y", "Z", "[", "\\", "]", "^", "_",
       "<backtick>", "a", "b", "c", "d", "e", "f", "g", "h", "i", "j", "k", "l", "m", "n", "o",
       "p", "q", "r", "s", "t", "u", "v", "w", "x", "y", "z", "{", "|", "}", "~" >>

\* UTF-8 encoding of a text of ASCII characters: one byte per character.
Utf8Encode(text) ==
    [i \in 1..Len(text) |->
        31 + (CHOOSE k \in 1..Len(AsciiPrintable) : AsciiPrintable[k] = text[i])]

\* UTF-8 decoding of bytes; a byte outside printable ASCII decodes to the
\* replacement character, written "?" here.
Utf8Decode(bytes) ==
    [i \in 1..Len(bytes) |->
        IF bytes[i] >= 32 /\ bytes[i] <= 126 THEN AsciiPrintable[bytes[i] - 31] ELSE "?"]

HexDigits == <<"0", "1", "2", "3", "4", "5", "6", "7", "8", "9", "a", "b", "c", "d", "e", "f">>

IsHexDigit(c) == \E k \in 1..16 : HexDigits[k] = c

HexValue(c) == (CHOOSE k \in 1..16 : HexDigits[k] = c) - 1

\* Buffer.toString('hex'): two lower-case digits per byte, high digit first.
ToHex(bytes) ==
    [i \in 1..(2 * Len(bytes)) |->
        IF i % 2 = 1 THEN HexDigits[(bytes[(i + 1) \div 2] \div 16) + 1]
        ELSE HexDigits[(bytes[i \div 2] % 16) + 1]]

\* Buffer.from(text, 'hex'): decodes digit pairs and stops at the first pair
\* that is not two hex digits.
FromHex(text) ==
    LET pairs == Len(text) \div 2
        bad   == {k \in 1..pairs : ~(IsHexDigit(text[2 * k - 1]) /\ IsHexDigit(text[2 * k]))}
        n     == IF bad = {} THEN pairs ELSE (CHOOSE k \in bad : \A j \in bad : k <= j) - 1
    IN  [k \in 1..n |-> 16 * HexValue(text[2 * k - 1]) + HexValue(text[2 * k])]

(***************************************************************************)
(* JSON.stringify / JSON.parse of a ghost-order record.  Amounts are kept  *)
(* in cents; the number text is the shortest decimal of amount / 100, as   *)
(* JavaScript prints a price with at most two decimals.                    *)
(***************************************************************************)
Quote == "\""

Backslash == "\\"

Digits == <<"0", "1", "2", "3", "4", "5", "6", "7", "8", "9">>

IsDigit(c) == \E k \in 1..10 : Digits[k] = c

DigitValue(c) == (CHOOSE k \in 1..10 : Digits[k] = c) - 1

RECURSIVE NatText(_)
\* Decimal digits of a natural number.
NatText(n) == IF n < 10 THEN <<Digits[n + 1]>> ELSE NatText(n \div 10) \o <<Digits[(n % 10) + 1]>>

\* JSON text of a price amount.
JsonNumber(cents) ==
    LET whole == NatText(cents \div 100)
        frac  == cents % 100
    IN  IF frac = 0 THEN whole
        ELSE IF frac % 10 = 0 THEN whole \o <<".", Digits[(frac \div 10) + 1]>>
        ELSE whole \o <<".", Digits[(frac \div 10) + 1], Digits[(frac % 10) + 1]>>

RECURSIVE JsonEscape(_)
\* Quotes and backslashes are escaped with a backslash.
JsonEscape(s) ==
    IF s = <<>> THEN <<>>
    ELSE (IF Head(s) = Quote \/ Head(s) = Backslash THEN <<Backslash, Head(s)>> ELSE <<Head(s)>>)
         \o JsonEscape(Tail(s))

\* JSON text of a nullable string.
JsonString(s) ==
    IF s = Null THEN <<"n", "u", "l", "l">> ELSE <<Quote>> \o JsonEscape(s) \o <<Quote>>

KeyTxId == <<"t", "x", "I", "d">>

KeyDownloadLink == <<"d", "o", "w", "n", "l", "o", "a", "d", "L", "i", "n", "k">>

KeyPrice == <<"p", "r", "i", "c", "e">>

KeyAmount == <<"a", "m", "o", "u", "n", "t">>

KeyCurrency == <<"c", "u", "r", "r", "e", "n", "c", "y">>

KeyCategory == <<"c", "a", "t", "e", "g", "o", "r", "y">>

KeyProductName == <<"p", "r", "o", "d", "u", "c", "t", "N", "a", "m", "e">>

JsonMember(key, valueText) == <<Quote>> \o key \o <<Quote, ":">> \o valueText

\* JSON.stringify of { txId, downloadLink, price: { amount, currency,
\* category, productName } }: members in insertion order, no white space.
JsonStringify(data) ==
    <<"{">> \o JsonMember(KeyTxId, JsonString(data.txId))
    \o <<",">> \o JsonMember(KeyDownloadLink, JsonString(data.downloadLink))
    \o <<",">> \o JsonMember(KeyPrice,
            <<"{">> \o JsonMember(KeyAmount, JsonNumber(data.price.amount))
            \o <<",">> \o JsonMember(KeyCurrency, JsonString(data.price.currency))
            \o <<",">> \o JsonMember(KeyCategory, JsonString(data.price.category))
            \o <<",">> \o JsonMember(KeyProductName, JsonString(data.price.productName))
            \o <<"}">>)
    \o <<"}">>

RECURSIVE ScanString(_, _, _)
\* Reads a string body from position i (after the opening quote) up to the
\* closing quote; a backslash takes the next character literally.
ScanString(t, i, acc) ==
    IF t[i] = Quote THEN [val |-> acc, next |-> i + 1]
    ELSE IF t[i] = Backslash THEN ScanString(t, i + 2, Append(acc, t[i + 1]))
    ELSE ScanString(t, i + 1, Append(acc, t[i]))

RECURSIVE ScanDigits(_, _, _)
\* Reads a run of digits from position i: the digits as a sequence of values.
ScanDigits(t, i, acc) ==
    IF i <= Len(t) /\ IsDigit(t[i]) THEN ScanDigits(t, i + 1, Append(acc, DigitValue(t[i])))
    ELSE [val |-> acc, next |-> i]

RECURSIVE DigitsToNat(_, _)
DigitsToNat(ds, acc) == IF ds = <<>> THEN acc ELSE DigitsToNat(Tail(ds), 10 * acc + Head(ds))

\* Reads a number text and gives the amount back in cents.
ScanNumber(t, i) ==
    LET whole == ScanDigits(t, i, <<>>)
        w     == DigitsToNat(whole.val, 0)
    IN  IF whole.next <= Len(t) /\ t[whole.next] = "."
        THEN LET frac == ScanDigits(t, whole.next + 1, <<>>)
                 f    == IF Len(frac.val) = 1 THEN 10 * frac.val[1]
                         ELSE 10 * frac.val[1] + frac.val[2]
             IN  [val |-> 100 * w + f, next |-> frac.next]
        ELSE [val |-> 100 * w, next |-> whole.next]

RECURSIVE ScanMembers(_, _, _)
RECURSIVE ScanValue(_, _)
\* Reads the members of an object from the quote of a key at position i up to
\* the closing brace: a sequence of <<key, value>> pairs.
ScanMembers(t, i, acc) ==
    LET k    == ScanString(t, i + 1, <<>>)
        v    == ScanValue(t, k.next + 1)
        acc2 == Append(acc, <<k.val, v.val>>)
    IN  IF t[v.next] = "," THEN ScanMembers(t, v.next + 1, acc2)
        ELSE [val |-> acc2, next |-> v.next + 1]

\* Reads a string, null, a nested object or a number.
ScanValue(t, i) ==
    IF t[i] = Quote THEN ScanString(t, i + 1, <<>>)
    ELSE IF t[i] = "n" THEN [val |-> Null, next |-> i + 4]
    ELSE IF t[i] = "{" THEN ScanMembers(t, i + 1, <<>>)
    ELSE ScanNumber(t, i)

\* The value of a key among parsed members.
Member(members, key) ==
    members[CHOOSE i \in 1..Len(members) : members[i][1] = key][2]

\* JSON.parse of a ghost-order record text.
JsonParse(text) ==
    LET top   == ScanValue(text, 1).val
        price == Member(top, KeyPrice)
    IN  [txId         |-> Member(top, KeyTxId),
         downloadLink |-> Member(top, KeyDownloadLink),
         price        |-> [amount      |-> Member(price, KeyAmount),
                           currency    |-> Member(price, KeyCurrency),
                           category    |-> Member(price, KeyCategory),
                           productName |-> Member(price, KeyProductName)]]

(***************************************************************************)
(* AES-256-CBC of Node's crypto module, reduced to what the token codec    *)
(* relies on: a keyed permutation of 16-byte blocks, cipher-block chaining *)
(* from the IV, and PKCS#7 padding.                                        *)
(***************************************************************************)
\* Size of the IV, which is the AES block size.
IV_LENGTH == 16

\* Number of different IVs that crypto.randomBytes is made to draw.
MaxIvs == 2

RECURSIVE Xor(_, _)
\* Bitwise exclusive or of two bytes.
Xor(a, b) ==
    IF a = 0 /\ b = 0 THEN 0
    ELSE (((a % 2) + (b % 2)) % 2) + 2 * Xor(a \div 2, b \div 2)

XorBlock(x, y) == [i \in 1..IV_LENGTH |-> Xor(x[i], y[i])]

\* The key: the first 16 bytes stand for the SHA-256 digest of the secret.
ENCRYPTION_KEY == [i \in 1..IV_LENGTH |-> (37 * i + 11) % 256]

\* The block cipher under ENCRYPTION_KEY: each output byte is an invertible
\* affine image of the next input byte (cyclically).
BlockEncrypt(b) ==
    [i \in 1..IV_LENGTH |-> (5 * b[(i % IV_LENGTH) + 1] + ENCRYPTION_KEY[i]) % 256]

\* Its inverse: 205 is the inverse of 5 modulo 256.
BlockDecrypt(c) ==
    [j \in 1..IV_LENGTH |->
        LET i == ((j + IV_LENGTH - 2) % IV_LENGTH) + 1
        IN  (205 * (c[i] + 256 - ENCRYPTION_KEY[i])) % 256]

\* PKCS#7: n bytes of value n, 1 <= n <= block size, fill the last block.
Pkcs7Pad(bytes) ==
    LET n == IV_LENGTH - (Len(bytes) % IV_LENGTH)
    IN  bytes \o [i \in 1..n |-> n]

Pkcs7Valid(bytes) ==
    /\ Len(bytes) > 0
    /\ LET n == bytes[Len(bytes)]
       IN  /\ n >= 1
           /\ n <= IV_LENGTH
           /\ n <= Len(bytes)
           /\ \A i \in (Len(bytes) - n + 1)..Len(bytes) : bytes[i] = n

Pkcs7Unpad(bytes) == SubSeq(bytes, 1, Len(bytes) - bytes[Len(bytes)])

RECURSIVE CbcEncrypt(_, _)
\* Each plaintext block is xored with the previous ciphertext block (the IV
\* for the first) and then encrypted.
CbcEncrypt(plain, prev) ==
    IF plain = <<>> THEN <<>>
    ELSE LET c == BlockEncrypt(XorBlock(SubSeq(plain, 1, IV_LENGTH), prev))
         IN  c \o CbcEncrypt(SubSeq(plain, IV_LENGTH + 1, Len(plain)), c)

RECURSIVE CbcDecrypt(_, _)
CbcDecrypt(ct, prev) ==
    IF ct = <<>> THEN <<>>
    ELSE LET c == SubSeq(ct, 1, IV_LENGTH)
         IN  XorBlock(BlockDecrypt(c), prev)
             \o CbcDecrypt(SubSeq(ct, IV_LENGTH + 1, Len(ct)), c)

\* cipher.update(text, 'utf8', 'hex') + cipher.final('hex')
CipherHex(text, iv) == ToHex(CbcEncrypt(Pkcs7Pad(Utf8Encode(text)), iv))

\* An IV that crypto.randomBytes(IV_LENGTH) may return.
RandomBytes(seed) == [i \in 1..IV_LENGTH |-> (89 * seed + 53 * i) % 256]

IvSeeds == 1..MaxIvs

TxnPrefix == <<"t", "x", "n", "_">>

\* txn_<iv in hex>-<ciphertext in hex>
encrypttxnOrder(data, iv) ==
    TxnPrefix \o ToHex(iv) \o <<"-">> \o CipherHex(JsonStringify(data), iv)

\* The result of decrypttxnOrder: ok is FALSE where the code throws.
Thrown == [ok |-> FALSE]

\* The decoder as it was when the token parts were joined by a colon.
decrypttxnOrderByColon(text) ==
    IF ~StartsWith(text, TxnPrefix) THEN Thrown
    ELSE LET textParts     == Split(Substring(text, 4), ":")
             iv            == FromHex(Head(textParts))
             encryptedText == Join(Tail(textParts), ":")
             ct            == FromHex(encryptedText)
         IN  IF Len(iv) # IV_LENGTH THEN Thrown
             ELSE IF Len(ct) = 0 \/ Len(ct) % IV_LENGTH # 0 THEN Thrown
             ELSE LET padded == CbcDecrypt(ct, iv)
                  IN  IF ~Pkcs7Valid(padded) THEN Thrown
                      ELSE [ok |-> TRUE, data |-> JsonParse(Utf8Decode(Pkcs7Unpad(padded)))]

\* decrypttxnOrder: ok is TRUE and data the parsed record where it returns.
decrypttxnOrder(text) ==
    IF ~StartsWith(text, TxnPrefix) THEN Thrown
    ELSE LET textParts     == Split(Substring(text, 4), "-")
             iv            == FromHex(Head(textParts))
             encryptedText == Join(Tail(textParts), "-")
             ct            == FromHex(encryptedText)
         IN  IF Len(iv) # IV_LENGTH THEN Thrown
             ELSE IF Len(ct) = 0 \/ Len(ct) % IV_LENGTH # 0 THEN Thrown
             ELSE LET padded == CbcDecrypt(ct, iv)
                  IN  IF ~Pkcs7Valid(padded) THEN Thrown
                      ELSE [ok |-> TRUE, data |-> JsonParse(Utf8Decode(Pkcs7Unpad(padded)))]

(***************************************************************************)
(* State.                                                                  *)
(***************************************************************************)
VARIABLES
    orders,     \* the orders table: a sequence of rows in creation order
    aged,       \* how many of the oldest orders were created over 30 minutes ago
    prices,     \* the prices table joined with its product
    hooks,      \* the webhook handler executions that wait for their update
    answer,     \* the last answer of a webhook handler
    delivered,  \* the webhook deliveries whose handler updated its order
    requests,   \* the initiate-payment handler executions
    expired,    \* what the last run of expirePendingOrders returned
    products,   \* the products table of the catalogue
    regions,    \* the product_regions table
    reply,      \* the last answer of a catalogue route
    codec,      \* a ghost-order record on its way through the token codec
    syncpay,    \* the token data of the SyncPayService singleton
    reportedExpiry, \* the expiry that the gateway reported for the token held
    now,        \* the clock, in seconds
    calls,      \* the createPixPayment executions of the gateway services
    lookup      \* the last answer of GET /api/payments/order/:orderId

payVars == <<orders, aged, prices, hooks, answer, delivered, requests, expired>>

catVars == <<products, regions, reply>>

svcVars == <<syncpay, reportedExpiry, now, calls>>

vars == <<orders, aged, prices, hooks, answer, delivered, requests, expired, products, regions,
          reply, codec, syncpay, reportedExpiry, now, calls,
          lookup>>

(***************************************************************************)
(* Values the environment supplies.                                        *)
(***************************************************************************)
\* Transaction ids the gateways hand out.
TxIds == { <<"9", "c", "-", "4", "b">>, <<"t", "A">> }

\* Delivery links of prices.
Links == { <<"h", "t", "t", "p", "s", ":", "/", "/", "t", ".", "m", "e", "/", "+", "A", "1">>,
           <<"L", "-", "2">> }

\* Price amounts, in cents: 0.05, 9.90, 19.99, 50.
Amounts == {5, 990, 1999, 5000}

Currencies == { <<"B", "R", "L">>, <<"U", "S", "D">> }

Categories == { <<"V", "I", "P">>, <<"H", "D", " ", "\"", "4", "K", "\"">> }

ProductNames == { <<"P", "a", "c", "k", " ", "1">>, <<"a", "\\", "b", "-", "c">> }

(***************************************************************************)
(* The token codec on its own.                                             *)
(***************************************************************************)
GhostOrders ==
    [txId : TxIds, downloadLink : Links \cup {Null},
     price : [amount : Amounts, currency : Currencies, category : Categories,
              productName : ProductNames]]

NoData == [txId |-> Null, downloadLink |-> Null,
           price |-> [amount |-> 0, currency |-> Null, category |-> Null, productName |-> Null]]

CodecIdle == [pc |-> "idle", data |-> NoData, token |-> <<>>, out |-> Thrown]

\* encrypttxnOrder is called on a record, with the IV that randomBytes draws.
CodecEncrypt ==
    /\ codec.pc = "idle"
    /\ \E data \in GhostOrders, seed \in IvSeeds :
          codec' = [pc |-> "encrypted", data |-> data,
                    token |-> encrypttxnOrder(data, RandomBytes(seed)), out |-> Thrown]
    /\ UNCHANGED <<payVars, catVars, svcVars, lookup>>

\* decrypttxnOrder is called on the token that encrypttxnOrder returned.
CodecDecrypt ==
    /\ codec.pc = "encrypted"
    /\ codec' = [codec EXCEPT !.pc = "decrypted", !.out = decrypttxnOrder(codec.token)]
    /\ UNCHANGED <<payVars, catVars, svcVars, lookup>>

(***************************************************************************)
(* Orders, prices and the webhook handlers.                                *)
(***************************************************************************)
\* The users that place orders.
Users == {"u1"}

PriceIds == {"p1", "p2"}

\* A price id that no row has.
MissingPriceId == "p9"

NoPriceId == "null"

\* The id that the database gives the n-th order.
OrderId(n) == <<"c", "k">> \o NatText(n)

\* The order id of the webhook URL that diverted payments register.
DivertedId == <<"d", "i", "v", "e", "r", "t", "e", "d">>

\* prisma.order.findUnique({ where: { id } }): the row number, 0 for no row.
FindOrder(table, id) ==
    IF \E n \in 1..Len(table) : table[n].id = id
    THEN CHOOSE n \in 1..Len(table) : table[n].id = id
    ELSE 0

\* include: { price: ... } of an order: the price row, or none when priceId is null.
PriceOf(order) == IF order.priceId = NoPriceId THEN [exists |-> FALSE] ELSE prices[order.priceId]

Ignored == "Webhook ignorado (pedido ja processado)"

NoUpdate == [status |-> "none", setLink |-> FALSE, downloadLink |-> Null]

\* A handler execution: where it stands, what it read and what it will write.
IdleHook ==
    [pc |-> "idle", route |-> "none", orderId |-> <<>>, payload |-> "none", row |-> 0,
     seen |-> "none", data |-> NoUpdate, code |-> 0, message |-> "none", replay |-> FALSE]

\* The statuses a PushinPay notification may carry in req.body.status.
PushinPayStatuses == {"paid", "expired", "created"}

\* The statuses of a SyncPay notification; "no data.id" is a body that
\* parseWebhookPayload rejects.
SyncPayStatuses == {"PAID_OUT", "FAILED", "REFUNDED", "PENDING", "MED", "no data.id"}

\* A guard that takes only a completed order for processed.
AlreadyProcessedIfCompleted(order) == order.status = "COMPLETED"

\* The guard of both webhook handlers: the order was already processed.
AlreadyProcessed(order) == order.status # "PENDING"

\* The update of a paid order: COMPLETED, with the delivery link of its price
\* when it still has one.
PaidUpdate(order) ==
    IF ~PriceOf(order).exists
    THEN [status |-> "COMPLETED", setLink |-> FALSE, downloadLink |-> Null]
    ELSE [status |-> "COMPLETED", setLink |-> TRUE, downloadLink |-> PriceOf(order).deliveryLink]

FailedUpdate == [status |-> "FAILED", setLink |-> FALSE, downloadLink |-> Null]

\* A mapping that takes every status but 'paid' for an expiry.
PushinPayUpdateFailsUnpaid(status, order) ==
    IF status = "paid" THEN PaidUpdate(order) ELSE FailedUpdate

\* POST /webhook/:orderId, from the status of the body: the update to make.
PushinPayUpdate(status, order) ==
    IF status = "paid" THEN PaidUpdate(order)
    ELSE IF status = "expired" THEN FailedUpdate
    ELSE NoUpdate

\* A mapping that fails the order on a MED notification as well.
SyncPayUpdateFailsMed(status, order) ==
    IF status = "PAID_OUT" THEN PaidUpdate(order)
    ELSE IF status \in {"FAILED", "REFUNDED", "MED"} THEN FailedUpdate
    ELSE NoUpdate

\* POST /webhook-syncpay/:orderId, from the parsed status: the update to make.
SyncPayUpdate(status, order) ==
    IF status = "PAID_OUT" THEN PaidUpdate(order)
    ELSE IF status = "FAILED" \/ status = "REFUNDED" THEN FailedUpdate
    ELSE NoUpdate

\* A handler that goes on to its update whatever status it has read.
HandlerAfterReadUnguarded(route, id, payload, row, update, done) ==
    LET base == [IdleHook EXCEPT !.pc = "done", !.route = route, !.orderId = id,
                                 !.payload = payload]
    IN  IF row = 0
        THEN [base EXCEPT !.code = 404, !.message = "Pedido nao encontrado"]
        ELSE IF update.status = "none"
        THEN [base EXCEPT !.row = row, !.seen = orders[row].status,
                          !.code = 200, !.message = done]
        ELSE [base EXCEPT !.pc = "update", !.row = row, !.seen = orders[row].status,
                          !.data = update]

\* A handler up to its first database write: the lookup, the guard and the
\* choice of the update.  It answers at once unless an update is due.
HandlerAfterRead(route, id, payload, row, update, done) ==
    LET base == [IdleHook EXCEPT !.pc = "done", !.route = route, !.orderId = id,
                                 !.payload = payload]
    IN  IF row = 0
        THEN [base EXCEPT !.code = 404, !.message = "Pedido nao encontrado"]
        ELSE IF AlreadyProcessed(orders[row])
        THEN [base EXCEPT !.row = row, !.seen = orders[row].status,
                          !.code = 200, !.message = Ignored]
        ELSE IF update.status = "none"
        THEN [base EXCEPT !.row = row, !.seen = orders[row].status,
                          !.code = 200, !.message = done]
        ELSE [base EXCEPT !.pc = "update", !.row = row, !.seen = orders[row].status,
                          !.data = update]

\* POST /webhook/:orderId up to its update.
PushinPayHandler(id, status) ==
    IF id = DivertedId
    THEN [IdleHook EXCEPT !.pc = "done", !.route = "webhook", !.orderId = id,
                          !.payload = status, !.code = 200,
                          !.message = "Webhook para pagamento recebido."]
    ELSE LET row == FindOrder(orders, id)
         IN  HandlerAfterRead("webhook", id, status, row,
                 IF row = 0 THEN NoUpdate ELSE PushinPayUpdate(status, orders[row]),
                 "Webhook processado")

\* POST /webhook-syncpay/:orderId up to its update.
SyncPayHandler(id, status) ==
    IF status = "no data.id"
    THEN [IdleHook EXCEPT !.pc = "done", !.route = "webhook-syncpay", !.orderId = id,
                          !.payload = status, !.code = 500,
                          !.message = "Erro interno do servidor"]
    ELSE LET row == FindOrder(orders, id)
         IN  HandlerAfterRead("webhook-syncpay", id, status, row,
                 IF row = 0 THEN NoUpdate ELSE SyncPayUpdate(status, orders[row]),
                 "Webhook do SyncPay processado")

Hooks == 1..MaxWebhooks

WebhookIds == {OrderId(n) : n \in 1..MaxOrders} \cup {DivertedId}

\* A delivery that repeats one whose handler has updated the order and answered.
IsReplay(route, id, status) == <<route, id, status>> \in delivered

\* What is kept of the answer of a handler: the status code and message, the
\* order status the handler had read, whether the notification reported a
\* payment, whether the delivery was a repeat and whether the handler wrote.
Answer(hook, wrote) ==
    [code |-> hook.code, message |-> hook.message, seen |-> hook.seen,
     paid |-> hook.payload \in {"paid", "PAID_OUT"}, replay |-> hook.replay, wrote |-> wrote]

NoAnswer ==
    [code |-> 0, message |-> "none", seen |-> "none", paid |-> FALSE, replay |-> FALSE,
     wrote |-> FALSE]

\* A handler has run up to its update or to its answer.
Received(h, hook) ==
    IF hook.pc = "update"
    THEN hooks' = [hooks EXCEPT ![h] = hook] /\ answer' = answer
    ELSE hooks' = hooks /\ answer' = Answer(hook, FALSE)

\* A PushinPay notification arrives and its handler runs up to its update.
PushinPayWebhook(h) ==
    /\ hooks[h].pc = "idle"
    /\ \E id \in WebhookIds, status \in PushinPayStatuses :
          Received(h, [PushinPayHandler(id, status) EXCEPT
                          !.replay = IsReplay("webhook", id, status)])
    /\ UNCHANGED <<orders, aged, prices, delivered, requests, catVars, expired, codec, lookup, svcVars>>

\* A SyncPay notification arrives and its handler runs up to its update.
SyncPayWebhook(h) ==
    /\ hooks[h].pc = "idle"
    /\ \E id \in WebhookIds \ {DivertedId}, status \in SyncPayStatuses :
          Received(h, [SyncPayHandler(id, status) EXCEPT
                          !.replay = IsReplay("webhook-syncpay", id, status)])
    /\ UNCHANGED <<orders, aged, prices, delivered, requests, catVars, expired, codec, lookup, svcVars>>

\* An update that takes effect only on an order that is still PENDING.
ApplyUpdateIfPending(order, data) ==
    IF order.status # "PENDING" THEN order
    ELSE IF data.setLink
    THEN [order EXCEPT !.status = data.status, !.downloadLink = data.downloadLink]
    ELSE [order EXCEPT !.status = data.status]

\* prisma.order.update({ where: { id }, data }) of a webhook handler.
ApplyUpdate(order, data) ==
    IF data.setLink
    THEN [order EXCEPT !.status = data.status, !.downloadLink = data.downloadLink]
    ELSE [order EXCEPT !.status = data.status]

\* The handler's update reaches the database and the handler answers.
WebhookUpdate(h) ==
    /\ hooks[h].pc = "update"
    /\ orders' = [orders EXCEPT ![hooks[h].row] = ApplyUpdate(@, hooks[h].data)]
    /\ hooks' = [hooks EXCEPT ![h] = IdleHook]
    /\ answer' = Answer([hooks[h] EXCEPT !.code = 200,
                                         !.message = IF hooks[h].route = "webhook"
                                                     THEN "Webhook processado"
                                                     ELSE "Webhook do SyncPay processado"],
                        TRUE)
    /\ delivered' = delivered \cup {<<hooks[h].route, hooks[h].orderId, hooks[h].payload>>}
    /\ UNCHANGED <<aged, prices, requests, catVars, expired, codec, lookup, svcVars>>

(***************************************************************************)
(* The expiration job and the passing of time.                             *)
(***************************************************************************)
\* A where that does not look at createdAt.
ExpirableAtAnyAge(n) == orders[n].status = "PENDING"

\* where: { status: 'PENDING', createdAt: { lt: thirtyMinutesAgo } }
Expirable(n) == orders[n].status = "PENDING" /\ n <= aged

\* An updateMany that matches no row.
ExpiredNoOrders == orders

\* The orders table after the updateMany of the job.
ExpiredOrders ==
    [n \in 1..Len(orders) |->
        IF Expirable(n) THEN [orders[n] EXCEPT !.status = "FAILED"] ELSE orders[n]]

\* result.count of the updateMany: the rows that its where matched.
ExpiredCount == Cardinality({n \in 1..Len(orders) : Expirable(n)})

\* One run of expirePendingOrders: the updateMany takes effect and the run
\* returns its count, or it throws and the run returns 0.
ExpireRun(dbOk) ==
    /\ orders' = IF dbOk THEN ExpiredOrders ELSE orders
    /\ expired' = IF dbOk THEN ExpiredCount ELSE 0
    /\ UNCHANGED <<aged, prices, hooks, answer, delivered, requests, catVars, codec, lookup, svcVars>>

expirePendingOrders == \E dbOk \in BOOLEAN : ExpireRun(dbOk)

\* Time passes: the oldest order not yet 30 minutes old becomes so.
Age ==
    /\ aged < Len(orders)
    /\ aged' = aged + 1
    /\ UNCHANGED <<orders, prices, hooks, answer, delivered, requests, catVars, expired, codec, lookup, svcVars>>

(***************************************************************************)
(* Admin operations on prices that the payment flow observes.              *)
(***************************************************************************)
\* The prices that the admin edits while payments are under way.
AdminPriceIds == {"p1"}

\* DELETE /api/admin/prices/:id; orders.priceId is ON DELETE SET NULL.
DeletePrice(p) ==
    /\ prices[p].exists
    /\ prices' = [prices EXCEPT ![p].exists = FALSE]
    /\ orders' = [n \in 1..Len(orders) |->
                     IF orders[n].priceId = p THEN [orders[n] EXCEPT !.priceId = NoPriceId]
                     ELSE orders[n]]
    /\ UNCHANGED <<aged, hooks, answer, delivered, requests, catVars, expired, codec, lookup, svcVars>>

\* PUT /api/admin/prices/bulk-update with one price id.
BulkUpdatePrices(p) ==
    /\ prices[p].exists
    /\ \E link \in Links :
          /\ link # prices[p].deliveryLink
          /\ prices' = [prices EXCEPT ![p].deliveryLink = link]
    /\ UNCHANGED <<orders, aged, hooks, answer, delivered, requests, catVars, expired, codec, lookup, svcVars>>

(***************************************************************************)
(* POST /api/payments/initiate-payment.                                    *)
(***************************************************************************)
Requests == 1..MaxRequests

\* Math.floor(Math.random() * 30) draws from 0..29; 0 diverts the payment.
DivertOdds == 30

\* The draws that requests are tried with: the one that diverts and the
\* largest.
Draws == {0, DivertOdds - 1}

\* No createPixPayment call.
NoCall == [factory |-> "none", public |-> FALSE, url |-> <<>>]

NoPrice ==
    [exists |-> FALSE, productId |-> 0, active |-> FALSE, deliveryLink |-> Null, amount |-> 0,
     currency |-> Null, category |-> Null, productName |-> Null]

IdleRequest ==
    [pc |-> "idle", userId |-> "undefined", priceId |-> "undefined", gateway |-> "undefined",
     diverted |-> FALSE, price |-> NoPrice, row |-> 0, made |-> 0, txId |-> Null,
     code |-> 0, error |-> "none", message |-> <<>>, orderId |-> <<>>,
     transactionId |-> Null, answered |-> "none", call |-> NoCall]

\* What the gateways answer to a request that they refuse, and what axios
\* reports of a request without an answer.
UpstreamErrors == {"Invalid token", "timeout of 30000ms exceeded"}

\* The error that PushinPayService.createPixPayment throws on a failed request.
PushinPayError(upstream) == <<"Failed to create PIX payment: ", upstream>>

\* The error that SyncPayService.createPixPayment throws on a failed request.
SyncPayError(upstream) == <<"Failed to create SyncPay PIX payment: ", upstream>>

\* The errors that createPixPayment of the service of a gateway may throw.
GatewayErrors(gateway) ==
    IF gateway = "pushinpay" THEN {PushinPayError(upstream) : upstream \in UpstreamErrors}
    ELSE {SyncPayError(upstream) : upstream \in UpstreamErrors}

\* The error that prisma.order.create throws on a price that is gone.
ForeignKeyError == <<"Foreign key constraint failed on the field: ", "orders_priceId_fkey">>

\* A catch that keeps the message of the error to itself.
CaughtSilently(error) ==
    [IdleRequest EXCEPT !.pc = "done", !.code = 500, !.error = "Falha ao iniciar pagamento"]

\* The catch of initiate-payment: 500 with the message of the error caught.
Caught(error) ==
    [IdleRequest EXCEPT !.pc = "done", !.code = 500, !.error = "Falha ao iniciar pagamento",
                        !.message = error]

\* An answer with an error status: what is kept of a request that ended so.
Rejected(code, error) == [IdleRequest EXCEPT !.pc = "done", !.code = code, !.error = error]

\* const effectiveGateway = isDiverted ? 'pushinpay' : gateway
EffectiveGateway(req) == IF req.diverted THEN "pushinpay" ELSE req.gateway

\* What is kept of a request that answered success: true.
Succeeded(req, orderId, txId) ==
    [IdleRequest EXCEPT !.pc = "done", !.code = 200, !.gateway = req.gateway,
                        !.diverted = req.diverted, !.row = req.row, !.made = req.made,
                        !.orderId = orderId, !.transactionId = txId,
                        !.answered = EffectiveGateway(req), !.call = req.call]

\* prisma.price.findUnique({ where: { id }, include: { product: true } })
FindPrice(id) == IF id \in PriceIds /\ prices[id].exists THEN prices[id] ELSE NoPrice

\* The client fields of a body, each there or not: all of them, none of
\* them, and all but one.
AllClientInfo ==
    [clientName |-> TRUE, clientCpf |-> TRUE, clientEmail |-> TRUE, clientPhone |-> TRUE]

NoClientInfo ==
    [clientName |-> FALSE, clientCpf |-> FALSE, clientEmail |-> FALSE, clientPhone |-> FALSE]

PartClientInfo ==
    {[AllClientInfo EXCEPT ![field] = FALSE] :
        field \in {"clientName", "clientCpf", "clientEmail", "clientPhone"}}

\* Checks that ask SyncPay payments for the name, the CPF and the e-mail only.
ValidateRequestWithoutPhone(priceId, userId, gateway, clientInfo) ==
    IF priceId = "undefined" THEN [code |-> 400, error |-> "priceId e obrigatorio"]
    ELSE IF userId = "undefined"
    THEN [code |-> 401, error |-> "Autenticacao de usuario necessaria"]
    ELSE IF gateway \notin {"pushinpay", "syncpay"}
    THEN [code |-> 400, error |-> "Gateway invalido"]
    ELSE IF gateway = "syncpay" /\ (\/ ~clientInfo.clientName
                                    \/ ~clientInfo.clientCpf
                                    \/ ~clientInfo.clientEmail)
    THEN [code |-> 400, error |-> "Para pagamentos via SyncPay, e necessario fornecer"]
    ELSE [code |-> 0, error |-> "none"]

\* The checks of the body and of the authenticated user: the status code
\* and error of the rejection, code 0 when the request passes.
ValidateRequest(priceId, userId, gateway, clientInfo) ==
    IF priceId = "undefined" THEN [code |-> 400, error |-> "priceId e obrigatorio"]
    ELSE IF userId = "undefined"
    THEN [code |-> 401, error |-> "Autenticacao de usuario necessaria"]
    ELSE IF gateway \notin {"pushinpay", "syncpay"}
    THEN [code |-> 400, error |-> "Gateway invalido"]
    ELSE IF gateway = "syncpay" /\ (\/ ~clientInfo.clientName
                                    \/ ~clientInfo.clientCpf
                                    \/ ~clientInfo.clientEmail
                                    \/ ~clientInfo.clientPhone)
    THEN [code |-> 400, error |-> "Para pagamentos via SyncPay, e necessario fornecer"]
    ELSE [code |-> 0, error |-> "none"]

\* A check of the price that does not look at its product.
ValidatePriceExists(price) ==
    IF ~price.exists THEN [code |-> 404, error |-> "Preco nao encontrado"]
    ELSE [code |-> 0, error |-> "none"]

\* The check of the price and its product.
ValidatePrice(price) ==
    IF ~price.exists THEN [code |-> 404, error |-> "Preco nao encontrado"]
    ELSE IF ~price.active THEN [code |-> 400, error |-> "Produto nao esta disponivel"]
    ELSE [code |-> 0, error |-> "none"]

\* const isDiverted = Math.floor(Math.random() * 30) === 0
IsDiverted(draw) == draw = 0

\* A handler that creates an order for every payment, diverted or not.
FirstStepCreate(isDiverted) == "create"

\* Where the handler goes after its checks: a diverted payment calls the
\* gateway at once, a regular one creates its order first.
FirstStep(isDiverted) == IF isDiverted THEN "gateway" ELSE "create"

\* The handler from the request to its first database write or gateway call.
InitiateHandler(body, userId, draw) ==
    LET gateway == IF body.gateway = "undefined" THEN "pushinpay" ELSE body.gateway
        base    == [IdleRequest EXCEPT !.userId = userId, !.priceId = body.priceId,
                                       !.gateway = gateway]
        invalid == ValidateRequest(body.priceId, userId, gateway, body.clientInfo)
        price   == FindPrice(body.priceId)
    IN  IF invalid.code # 0 THEN Rejected(invalid.code, invalid.error)
        ELSE IF ValidatePrice(price).code # 0
        THEN Rejected(ValidatePrice(price).code, ValidatePrice(price).error)
        ELSE [base EXCEPT !.pc = FirstStep(IsDiverted(draw)), !.diverted = IsDiverted(draw),
                          !.price = price]

\* The request bodies that are tried: priceId, gateway, and which of the
\* four client fields of SyncPay are there.
Bodies ==
    [priceId : {"p1"}, gateway : {"undefined", "pushinpay", "syncpay", "paypal"},
     clientInfo : {AllClientInfo, NoClientInfo}]
    \cup [priceId : {"p1"}, gateway : {"syncpay"}, clientInfo : PartClientInfo]
    \cup [priceId : {"p2", MissingPriceId, "undefined"}, gateway : {"pushinpay", "syncpay"},
          clientInfo : {AllClientInfo}]

\* Orders that requests in flight are about to create.
Creating == {r \in Requests : requests[r].pc = "create"}

\* A request arrives and its handler runs up to its first await with an effect.
InitiatePayment(r) ==
    /\ requests[r].pc \in {"idle", "done"}
    /\ \E body \in Bodies, userId \in Users \cup {"undefined"}, draw \in Draws :
          LET next == InitiateHandler(body, userId, draw)
          IN  /\ next.pc = "create" => Len(orders) + Cardinality(Creating) < MaxOrders
              /\ requests' = [requests EXCEPT ![r] = next]
    /\ UNCHANGED <<orders, aged, prices, hooks, answer, delivered, catVars, expired, codec, lookup, svcVars>>

\* The row of prisma.order.create for a regular payment.
NewOrder(req, n) ==
    [id |-> OrderId(n), userId |-> req.userId, priceId |-> req.priceId,
     status |-> "PENDING",
     gateway |-> IF req.gateway = "pushinpay" THEN "PUSHINPAY" ELSE "SYNCPAY",
     pushinpayTxId |-> Null, syncpayTxId |-> Null, downloadLink |-> Null]

\* The orders table after the create of a regular payment.
OrdersAfterCreate(req) == Append(orders, NewOrder(req, Len(orders) + 1))

\* prisma.order.create: it throws when the price row is gone by now (the
\* foreign key), and the handler then answers 500.
CreateOrder(r) ==
    /\ requests[r].pc = "create"
    /\ IF prices[requests[r].priceId].exists
       THEN /\ orders' = OrdersAfterCreate(requests[r])
            /\ requests' = [requests EXCEPT ![r].pc = "gateway",
                                            ![r].row = Len(orders) + 1,
                                            ![r].made = Len(orders') - Len(orders)]
       ELSE /\ orders' = orders
            /\ requests' = [requests EXCEPT ![r] = Caught(ForeignKeyError)]
    /\ UNCHANGED <<aged, prices, hooks, answer, delivered, catVars, expired, codec, lookup, svcVars>>

\* The record that a diverted payment encrypts into its order id.
GhostOrder(req, txId) ==
    [txId |-> txId, downloadLink |-> req.price.deliveryLink,
     price |-> [amount |-> req.price.amount, currency |-> req.price.currency,
                category |-> req.price.category, productName |-> req.price.productName]]

\* The transaction ids that the gateways hand out to payment requests.
PaymentTxIds == { <<"9", "c", "-", "4", "b">> }

\* The createPixPayment call of a request that calls the service of the
\* gateway that was asked for, diverted or not.
GatewayCallAsAsked(req) ==
    LET id == IF req.diverted THEN DivertedId ELSE orders[req.row].id
    IN  IF req.gateway = "pushinpay"
        THEN [factory |-> "getPaymentService", public |-> req.diverted,
              url |-> <<"/api/payments/webhook/", id>>]
        ELSE [factory |-> "getSyncPayService", public |-> FALSE,
              url |-> <<"/api/payments/webhook-syncpay/", id>>]

\* The createPixPayment call of a request: the function that hands out the
\* service, its argument, and the webhook URL behind BACKEND_URL.
GatewayCall(req) ==
    IF req.diverted
    THEN [factory |-> "getPaymentService", public |-> TRUE,
          url |-> <<"/api/payments/webhook/", DivertedId>>]
    ELSE IF EffectiveGateway(req) = "pushinpay"
    THEN [factory |-> "getPaymentService", public |-> FALSE,
          url |-> <<"/api/payments/webhook/", orders[req.row].id>>]
    ELSE [factory |-> "getSyncPayService", public |-> FALSE,
          url |-> <<"/api/payments/webhook-syncpay/", orders[req.row].id>>]

\* createPixPayment of the gateway returns a transaction id or throws.
GatewayReply(r) ==
    /\ requests[r].pc = "gateway"
    /\ \E result \in PaymentTxIds \cup {Null}, seed \in IvSeeds :
          LET req     == [requests[r] EXCEPT !.call = GatewayCall(requests[r])]
              service == IF req.call.factory = "getSyncPayService" THEN "syncpay"
                         ELSE "pushinpay"
          IN  IF result = Null
              THEN \E error \in GatewayErrors(service) :
                      requests' = [requests EXCEPT ![r] =
                          [Caught(error) EXCEPT !.diverted = req.diverted,
                                                !.row = req.row, !.made = req.made,
                                                !.call = req.call]]
              ELSE requests' = [requests EXCEPT ![r] =
                      IF req.diverted
                      THEN Succeeded(req, encrypttxnOrder(GhostOrder(req, result),
                                                          RandomBytes(seed)), result)
                      ELSE [req EXCEPT !.pc = "store", !.txId = result]]
    /\ UNCHANGED <<orders, aged, prices, hooks, answer, delivered, expired, catVars, codec, lookup, svcVars>>

\* An update that stores every transaction id as a PushinPay one.
StoreTxIdOfPushinPay(order, req) == [order EXCEPT !.pushinpayTxId = req.txId]

\* prisma.order.update({ where: { id }, data: { pushinpayTxId | syncpayTxId } })
StoreTxId(order, req) ==
    IF req.gateway = "pushinpay" THEN [order EXCEPT !.pushinpayTxId = req.txId]
    ELSE [order EXCEPT !.syncpayTxId = req.txId]

\* The transaction id is stored on the order and the handler answers.
UpdateOrder(r) ==
    /\ requests[r].pc = "store"
    /\ orders' = [orders EXCEPT ![requests[r].row] = StoreTxId(@, requests[r])]
    /\ requests' = [requests EXCEPT ![r] =
                        Succeeded(@, orders[requests[r].row].id, requests[r].txId)]
    /\ UNCHANGED <<aged, prices, hooks, answer, delivered, catVars, expired, codec, lookup, svcVars>>

(***************************************************************************)
(* The catalogue: the public product routes and the admin's operations on  *)
(* products and regions.                                                   *)
(***************************************************************************)
ProductIds == 1..MaxProducts

BR == <<"B", "R">>

NON_BR == <<"N", "O", "N", "_", "B", "R">>

\* req.geo?.countryCode as the product routes may find it: undefined, the
\* empty string, or a country code.
ViewerCountries == {Null, <<>>, BR, <<"U", "S">>, <<"D", "E">>}

\* The countryCode of the bodies that the admin posts.
RegionInputs ==
    {Null, BR, <<"u", "s">>, NON_BR, <<"n", "o", "n", "_", "b", "r">>, <<"B", "R", "A">>}

\* The code unit of a printable ASCII character.
CharCode(c) == 31 + (CHOOSE k \in 1..Len(AsciiPrintable) : AsciiPrintable[k] = c)

IsLetter(c) == CharCode(c) \in 65..90 \/ CharCode(c) \in 97..122

\* String.prototype.toUpperCase on ASCII text.
ToUpperCase(text) ==
    [i \in 1..Len(text) |->
        IF CharCode(text[i]) \in 97..122 THEN AsciiPrintable[CharCode(text[i]) - 32 - 31]
        ELSE text[i]]

\* /^[A-Z]{2}$/i.test(countryCode)
IsTwoLetters(text) == Len(text) = 2 /\ \A i \in 1..2 : IsLetter(text[i])

\* JavaScript truthiness of an optional string.
Truthy(text) == text # Null /\ text # <<>>

Found(id) == id \in 1..Len(products) /\ products[id].exists

\* include: { regions: true }
RegionsOf(id) == {region \in regions : region.productId = id}

\* The COMPLETED orders of the prices of a product, counted.
SalesCount(id) ==
    Cardinality({n \in 1..Len(orders) :
                    /\ orders[n].status = "COMPLETED"
                    /\ orders[n].priceId # NoPriceId
                    /\ prices[orders[n].priceId].exists
                    /\ prices[orders[n].priceId].productId = id})

\* prisma.product.findMany({ where: { isActive: true } }) without the filter.
AllProducts == {id \in 1..Len(products) : products[id].exists}

\* prisma.product.findMany({ where: { isActive: true } })
ActiveProducts == {id \in 1..Len(products) : products[id].exists /\ products[id].isActive}

\* The filter on every region of the product instead of some region.
ListFilterEvery(id, userCountryCode) ==
    /\ Truthy(userCountryCode)
    /\ \A region \in RegionsOf(id) :
          IF region.countryCode = NON_BR THEN userCountryCode # BR
          ELSE region.countryCode = userCountryCode

\* The callback of products.filter in the listing.
ListFilter(id, userCountryCode) ==
    IF Cardinality(RegionsOf(id)) = 0 THEN FALSE
    ELSE IF ~Truthy(userCountryCode) THEN FALSE
    ELSE \E region \in RegionsOf(id) :
            IF region.countryCode = NON_BR THEN userCountryCode # BR
            ELSE region.countryCode = userCountryCode

\* Array.prototype.sort by salesCount, highest first; it is stable, and rows
\* come from the database in creation order.
RECURSIVE SortBySales(_)
SortBySales(ids) ==
    IF ids = {} THEN <<>>
    ELSE LET best == CHOOSE a \in ids :
                        \A b \in ids : \/ SalesCount(a) > SalesCount(b)
                                       \/ SalesCount(a) = SalesCount(b) /\ a <= b
         IN  <<[id |-> best, availableInRegion |-> TRUE, salesCount |-> SalesCount(best)]>>
             \o SortBySales(ids \ {best})

NoReply ==
    [route |-> "none", code |-> 0, cc |-> Null, id |-> 0, products |-> <<>>,
     product |-> 0, error |-> "none"]

\* The answer of an admin route.
AdminReply(code) == [NoReply EXCEPT !.route = "admin", !.code = code]

\* GET /api/products
GetProductsHandler(userCountryCode) ==
    LET filteredProducts == {id \in ActiveProducts : ListFilter(id, userCountryCode)}
    IN  [NoReply EXCEPT !.route = "list", !.code = 200, !.cc = userCountryCode,
                        !.products = SortBySales(filteredProducts)]

GetProducts ==
    /\ \E cc \in ViewerCountries : reply' = GetProductsHandler(cc)
    /\ UNCHANGED <<payVars, products, regions, codec, lookup, svcVars>>

\* The region check of the single-product route with NON_BR open to everyone.
isAvailableToAnyone(id, userCountryCode) ==
    \E region \in RegionsOf(id) :
        IF region.countryCode = NON_BR THEN TRUE
        ELSE region.countryCode = userCountryCode

\* The region check of the single-product route.
isAvailableInRegion(id, userCountryCode) ==
    \E region \in RegionsOf(id) :
        IF region.countryCode = NON_BR THEN userCountryCode # BR
        ELSE region.countryCode = userCountryCode

\* GET /api/products/:id
GetProductHandler(id, userCountryCode) ==
    LET base == [NoReply EXCEPT !.route = "get", !.id = id, !.cc = userCountryCode]
    IN  IF ~Found(id)
        THEN [base EXCEPT !.code = 404, !.error = "Product not found"]
        ELSE IF ~products[id].isActive
        THEN [base EXCEPT !.code = 404, !.error = "Product not available"]
        ELSE IF Cardinality(RegionsOf(id)) = 0
        THEN [base EXCEPT !.code = 403,
                          !.error = "Product not available - no regions configured"]
        ELSE IF ~Truthy(userCountryCode)
        THEN [base EXCEPT !.code = 403, !.cc = Null,
                          !.error = "Product not available - location not detected"]
        ELSE IF ~isAvailableInRegion(id, userCountryCode)
        THEN [base EXCEPT !.code = 403, !.error = "Product not available in your region"]
        ELSE [base EXCEPT !.code = 200, !.product = id]

GetProduct ==
    /\ \E id \in ProductIds, cc \in ViewerCountries : reply' = GetProductHandler(id, cc)
    /\ UNCHANGED <<payVars, products, regions, codec, lookup, svcVars>>

\* POST /api/admin/products, with a body without prices; named says whether
\* name, description and imageUrl are all there.
CreateProduct ==
    /\ Len(products) < MaxProducts
    /\ \E named \in BOOLEAN, isActive \in {"undefined", "true", "false"} :
          IF ~named
          THEN /\ reply' = AdminReply(400)
               /\ UNCHANGED products
          ELSE /\ products' = Append(products, [exists |-> TRUE,
                                                isActive |-> (isActive # "false")])
               /\ reply' = AdminReply(201)
    /\ UNCHANGED <<payVars, regions, codec, lookup, svcVars>>

\* PUT /api/admin/products/:id
UpdateProduct ==
    /\ \E id \in ProductIds, isActive \in {"undefined", "true", "false"} :
          IF ~Found(id)
          THEN /\ reply' = AdminReply(404)
               /\ UNCHANGED <<products, prices>>
          ELSE LET active == IF isActive = "undefined" THEN products[id].isActive
                             ELSE isActive = "true"
               IN  /\ products' = [products EXCEPT ![id].isActive = active]
                   /\ prices' = [p \in PriceIds |->
                                    IF prices[p].exists /\ prices[p].productId = id
                                    THEN [prices[p] EXCEPT !.active = active]
                                    ELSE prices[p]]
                   /\ reply' = AdminReply(200)
    /\ UNCHANGED <<orders, aged, hooks, answer, delivered, requests, regions, expired, codec, lookup, svcVars>>

\* DELETE /api/admin/products/:id; prices and regions go with the product,
\* and orders.priceId is ON DELETE SET NULL.
DeleteProduct ==
    /\ \E id \in ProductIds :
          IF ~Found(id)
          THEN /\ reply' = AdminReply(404)
               /\ UNCHANGED <<products, prices, regions, orders>>
          ELSE LET gone == {p \in PriceIds : prices[p].exists /\ prices[p].productId = id}
               IN  /\ products' = [products EXCEPT ![id].exists = FALSE]
                   /\ regions' = regions \ RegionsOf(id)
                   /\ prices' = [p \in PriceIds |->
                                    IF p \in gone THEN [prices[p] EXCEPT !.exists = FALSE]
                                    ELSE prices[p]]
                   /\ orders' = [n \in 1..Len(orders) |->
                                    IF orders[n].priceId \in gone
                                    THEN [orders[n] EXCEPT !.priceId = NoPriceId]
                                    ELSE orders[n]]
                   /\ reply' = AdminReply(200)
    /\ UNCHANGED <<aged, hooks, answer, delivered, requests, expired, codec, lookup, svcVars>>

\* POST /api/admin/products/regions; productId 0 is a body without one.
AddProductRegion ==
    /\ \E productId \in {0} \cup ProductIds, countryCode \in RegionInputs :
          IF productId = 0 \/ ~Truthy(countryCode)
          THEN /\ reply' = AdminReply(400)
               /\ UNCHANGED regions
          ELSE IF ToUpperCase(countryCode) # NON_BR /\ ~IsTwoLetters(countryCode)
          THEN /\ reply' = AdminReply(400)
               /\ UNCHANGED regions
          ELSE IF ~Found(productId)
          THEN /\ reply' = AdminReply(404)
               /\ UNCHANGED regions
          ELSE /\ regions' = regions \cup {[productId |-> productId,
                                            countryCode |-> ToUpperCase(countryCode)]}
               /\ reply' = AdminReply(201)
    /\ UNCHANGED <<payVars, products, codec, lookup, svcVars>>

\* DELETE /api/admin/products/regions/:id; the delete of a row that is not
\* there throws, and the handler answers 500.
DeleteProductRegion ==
    /\ \E productId \in ProductIds, countryCode \in {ToUpperCase(c) : c \in RegionInputs \ {Null}} :
          LET region == [productId |-> productId, countryCode |-> countryCode]
          IN  IF region \in regions
              THEN /\ regions' = regions \ {region}
                   /\ reply' = AdminReply(200)
              ELSE /\ reply' = AdminReply(500)
                   /\ UNCHANGED regions
    /\ UNCHANGED <<payVars, products, codec, lookup, svcVars>>

(***************************************************************************)
(* The gateway services: SyncPayService and PushinPayService.              *)
(***************************************************************************)
Calls == 1..MaxCalls

\* if (amountInCents < 50) of both createPixPayment methods.
MinimumCents == 50

\* The seconds that authenticate takes off the lifetime of a token.
ExpiryMargin == 300

\* The amounts, in cents, that createPixPayment is called with.
CallAmounts == {MinimumCents - 1, MinimumCents}

\* expires_in of the answers to an auth-token request, in seconds.
ExpiresIn == {300, 900}

\* The seconds by which the clock moves at a time.
ClockSteps == {300}

\* The status codes of the answers to a cash-in request; 0 is a request
\* without an answer.
CashInStatuses == {200, 401, 500, 0}

\* A Date | null field without a date; a date is a sequence of one number.
NoDate == <<>>

\* The token data of a service that holds no token.
NoToken == [accessToken |-> Null, tokenExpiresAt |-> NoDate, authorization |-> Null]

\* access_token of the answer to the auth-token request of a call: the
\* gateway hands out another token to every caller.
AccessToken(c) == <<"t", "o", "k", "e", "n", "-">> \o NatText(c)

MinimumError == <<"Minimum transaction amount is 50 cents (R$ 0.50)">>

AuthError(upstream) == <<"Failed to authenticate with SyncPay: ", upstream>>

RetryError ==
    <<"Failed to authenticate with SyncPay after retry. Please check your credentials.">>

QRCodeError == "Failed to generate QR code"

\* A createPixPayment execution: where it stands, its arguments, the requests
\* it has sent, the answers to its cash-in requests and how it ended.
IdleCall ==
    [pc |-> "idle", service |-> "none", amount |-> 0, retryCount |-> 0, forced |-> FALSE,
     sent |-> <<>>, replies |-> <<>>, error |-> <<>>, returned |-> FALSE]

\* throw new Error(...) out of createPixPayment.
Raised(call, error) == [call EXCEPT !.pc = "done", !.error = error]

\* A validity that takes a token for good whatever the clock says.
isTokenValidForEver == syncpay.accessToken # Null /\ syncpay.tokenExpiresAt # NoDate

\* SyncPayService.isTokenValid
isTokenValid ==
    /\ syncpay.accessToken # Null
    /\ syncpay.tokenExpiresAt # NoDate
    /\ now < syncpay.tokenExpiresAt[1]

\* SyncPayService.resetToken
resetToken ==
    /\ syncpay' = NoToken
    /\ reportedExpiry' = NoDate
    /\ UNCHANGED <<now, calls, payVars, catVars, codec, lookup>>

\* An expiry that is the one the gateway reported.
TokenExpiryAsReported(expires_in) == now + expires_in

\* new Date(Date.now() + (response.data.expires_in - 300) * 1000)
TokenExpiry(expires_in) == now + (expires_in - ExpiryMargin)

\* authenticate up to its request: it returns at once on a token that is
\* valid, and the call sends its cash-in request; or it clears the token
\* data and sends an auth-token request.
authenticate(c, call, forceRefresh) ==
    IF ~forceRefresh /\ isTokenValid
    THEN /\ calls' = [calls EXCEPT ![c] =
                         [call EXCEPT !.pc = "cash-in", !.forced = FALSE,
                                      !.sent = Append(@, "cash-in")]]
         /\ UNCHANGED <<syncpay, reportedExpiry>>
    ELSE /\ calls' = [calls EXCEPT ![c] =
                         [call EXCEPT !.pc = "auth", !.forced = forceRefresh,
                                      !.sent = Append(@, "auth-token")]]
         /\ syncpay' = NoToken
         /\ reportedExpiry' = NoDate

\* A minimum check that turns away an amount of 50 cents as well.
BelowMinimumOrEqual(amountInCents) == amountInCents <= MinimumCents

\* if (amountInCents < 50)
BelowMinimum(amountInCents) == amountInCents < MinimumCents

\* SyncPayService.createPixPayment from its entry to its first request.
EnterSyncPay(c, call) ==
    IF BelowMinimum(call.amount)
    THEN /\ calls' = [calls EXCEPT ![c] = Raised(call, MinimumError)]
         /\ UNCHANGED <<syncpay, reportedExpiry>>
    ELSE authenticate(c, call, FALSE)

\* A caller calls SyncPayService.createPixPayment.
SyncPayCreatePixPayment(c) ==
    /\ calls[c].pc = "idle"
    /\ \E amount \in CallAmounts :
          EnterSyncPay(c, [IdleCall EXCEPT !.service = "syncpay", !.amount = amount])
    /\ UNCHANGED <<now, payVars, catVars, codec, lookup>>

\* return this.createPixPayment(amountInCents, webhookUrl, clientInfo, retryCount + 1)
SyncPayRetry(c) ==
    /\ calls[c].pc = "retry"
    /\ EnterSyncPay(c, [calls[c] EXCEPT !.retryCount = @ + 1])
    /\ UNCHANGED <<now, payVars, catVars, codec, lookup>>

\* The auth-token request of a call is answered or fails: authenticate sets
\* the token data and returns, or throws.
AuthReply(c) ==
    /\ calls[c].pc = "auth"
    /\ \/ \E expires_in \in ExpiresIn :
             /\ syncpay' = [accessToken |-> AccessToken(c),
                            tokenExpiresAt |-> <<TokenExpiry(expires_in)>>,
                            authorization |-> <<"Bearer ", AccessToken(c)>>]
             /\ reportedExpiry' = <<now + expires_in>>
             /\ calls' = [calls EXCEPT ![c] =
                             IF calls[c].forced
                             THEN [@ EXCEPT !.pc = "retry"]
                             ELSE [@ EXCEPT !.pc = "cash-in",
                                            !.sent = Append(@, "cash-in")]]
       \/ \E upstream \in UpstreamErrors :
             /\ calls' = [calls EXCEPT ![c] = Raised(@, AuthError(upstream))]
             /\ UNCHANGED <<syncpay, reportedExpiry>>
    /\ UNCHANGED <<now, payVars, catVars, codec, lookup>>

\* A catch that re-authenticates on every 401.
MayRetryAlways(retryCount) == TRUE

\* retryCount < 1
MayRetry(retryCount) == retryCount < 1

\* The cash-in request of a SyncPay call is answered or fails: the call
\* returns, or its catch re-authenticates or throws.
CashInReply(c) ==
    /\ calls[c].pc = "cash-in"
    /\ calls[c].service = "syncpay"
    /\ \E status \in CashInStatuses :
          LET call == [calls[c] EXCEPT !.replies = Append(@, status)]
          IN  IF status = 200
              THEN /\ \/ calls' = [calls EXCEPT ![c] =
                                      [call EXCEPT !.pc = "done", !.returned = TRUE]]
                      \/ calls' = [calls EXCEPT ![c] =
                                      Raised(call, SyncPayError(QRCodeError))]
                   /\ UNCHANGED <<syncpay, reportedExpiry>>
              ELSE IF status = 401 /\ MayRetry(call.retryCount)
              THEN authenticate(c, call, TRUE)
              ELSE IF status = 401
              THEN /\ calls' = [calls EXCEPT ![c] = Raised(call, RetryError)]
                   /\ UNCHANGED <<syncpay, reportedExpiry>>
              ELSE /\ \E upstream \in UpstreamErrors :
                         calls' = [calls EXCEPT ![c] = Raised(call, SyncPayError(upstream))]
                   /\ UNCHANGED <<syncpay, reportedExpiry>>
    /\ UNCHANGED <<now, payVars, catVars, codec, lookup>>

\* A caller calls PushinPayService.createPixPayment.
PushinPayCreatePixPayment(c) ==
    /\ calls[c].pc = "idle"
    /\ \E amount \in CallAmounts :
          LET call == [IdleCall EXCEPT !.service = "pushinpay", !.amount = amount]
          IN  calls' = [calls EXCEPT ![c] =
                  IF BelowMinimum(amount) THEN Raised(call, MinimumError)
                  ELSE [call EXCEPT !.pc = "cash-in", !.sent = Append(@, "cashIn")]]
    /\ UNCHANGED <<syncpay, reportedExpiry, now, payVars, catVars, codec, lookup>>

\* The cashIn request of a PushinPay call is answered or fails.
PushinPayReply(c) ==
    /\ calls[c].pc = "cash-in"
    /\ calls[c].service = "pushinpay"
    /\ \E status \in CashInStatuses :
          LET call == [calls[c] EXCEPT !.replies = Append(@, status)]
          IN  IF status = 200
              THEN calls' = [calls EXCEPT ![c] =
                                [call EXCEPT !.pc = "done", !.returned = TRUE]]
              ELSE \E upstream \in UpstreamErrors :
                      calls' = [calls EXCEPT ![c] = Raised(call, PushinPayError(upstream))]
    /\ UNCHANGED <<syncpay, reportedExpiry, now, payVars, catVars, codec, lookup>>

\* The caller has taken the result of its call.
CallReturns(c) ==
    /\ calls[c].pc = "done"
    /\ calls' = [calls EXCEPT ![c] = IdleCall]
    /\ UNCHANGED <<syncpay, reportedExpiry, now, payVars, catVars, codec, lookup>>

\* Time passes.
Tick ==
    /\ \E step \in ClockSteps :
          /\ now + step <= MaxClock
          /\ now' = now + step
    /\ UNCHANGED <<syncpay, reportedExpiry, calls, payVars, catVars, codec, lookup>>

\* The services as getSyncPayService and getPushinPayService construct them.
ServiceInit ==
    /\ syncpay = NoToken
    /\ reportedExpiry = NoDate
    /\ now = 0
    /\ calls = [c \in Calls |-> IdleCall]

(***************************************************************************)
(* GET /api/payments/order/:orderId.                                       *)
(***************************************************************************)
\* req.user of a request that authenticateToken let through: the payload of
\* the JWT of the owner of the orders, of a guest and of an admin.
Viewers ==
    { [userId |-> "u1", role |-> "CUSTOMER"], [userId |-> "g1", role |-> "GUEST"],
      [userId |-> "a1", role |-> "ADMIN"] }

\* The records of the tokens that are looked up.
LookupGhosts ==
    { g \in GhostOrders :
        /\ g.txId = <<"t", "A">>
        /\ g.price.amount \in {5, 990}
        /\ g.price.currency = <<"B", "R", "L">>
        /\ g.price.category = <<"V", "I", "P">> }

\* The order ids that initiate-payment has answered diverted payments with,
\* each with the record it was made from.
LookupTokens ==
    {[made |-> g, token |-> encrypttxnOrder(g, RandomBytes(1))] : g \in LookupGhosts}

\* The order ids that are looked up: those of the rows, one that no row
\* has, the tokens of diverted payments and two texts that are no tokens.
LookupIds ==
    {OrderId(n) : n \in 1..(MaxOrders + 1)}
    \cup {t.token : t \in LookupTokens}
    \cup {TxnPrefix \o <<"0", "0">>, TxnPrefix}

\* transactionStatus.status of getTransactionStatus; "throws" is a request
\* that fails.
TransactionStatuses == {"created", "paid", "expired", "throws"}

NoOrder ==
    [id |-> <<>>, status |-> "none", userId |-> "none", priceId |-> "none",
     downloadLink |-> Null,
     price |-> [amount |-> 0, currency |-> Null, category |-> Null, productName |-> Null]]

\* What is kept of a request and its answer: the id asked for, req.user,
\* what the gateway said of the transaction of a token, the status code, the
\* error and the order of the body.
NoLookup ==
    [asked |-> <<>>, by |-> "none", role |-> "none", gateway |-> "none", code |-> 0,
     error |-> "none", order |-> NoOrder]

\* res.status(code).json({ error })
LookupError(code, error) == [NoLookup EXCEPT !.code = code, !.error = error]

\* A ghost order that takes an expired transaction for a failed order.
fakeOrderFailing(orderId, txnData, status) ==
    [id |-> orderId,
     status |-> IF status = "paid" THEN "COMPLETED"
                ELSE IF status = "expired" THEN "FAILED" ELSE "PENDING",
     userId |-> "txn_USER", priceId |-> "txn_PRICE",
     downloadLink |-> IF status = "paid" THEN txnData.downloadLink ELSE Null,
     price |-> [amount |-> txnData.price.amount, currency |-> txnData.price.currency,
                category |-> txnData.price.category,
                productName |-> txnData.price.productName]]

\* const fakeOrder = { ... }
fakeOrder(orderId, txnData, status) ==
    [id |-> orderId,
     status |-> IF status = "paid" THEN "COMPLETED" ELSE "PENDING",
     userId |-> "txn_USER", priceId |-> "txn_PRICE",
     downloadLink |-> IF status = "paid" THEN txnData.downloadLink ELSE Null,
     price |-> [amount |-> txnData.price.amount, currency |-> txnData.price.currency,
                category |-> txnData.price.category,
                productName |-> txnData.price.productName]]

\* What is kept of res.json({ order }) for a row: the row with its price.
OrderWithPrice(order) ==
    [id |-> order.id, status |-> order.status, userId |-> order.userId,
     priceId |-> order.priceId, downloadLink |-> order.downloadLink,
     price |-> IF PriceOf(order).exists
               THEN [amount |-> PriceOf(order).amount, currency |-> PriceOf(order).currency,
                     category |-> PriceOf(order).category,
                     productName |-> PriceOf(order).productName]
               ELSE NoOrder.price]

\* An access check that looks at the owner alone.
AccessDeniedUnlessOwner(order, user) == order.userId # user.userId

\* order.userId !== userId && req.user?.role !== 'ADMIN'
AccessDenied(order, user) == order.userId # user.userId /\ user.role # "ADMIN"

\* decrypttxnOrder on each of the ids that are looked up, worked out once.
txnOrders ==
    [orderId \in {id \in LookupIds : StartsWith(id, TxnPrefix)} |-> decrypttxnOrder(orderId)]

\* The handler of GET /order/:orderId: its answer.
GetOrderHandler(orderId, user, transactionStatus) ==
    IF StartsWith(orderId, TxnPrefix)
    THEN LET txnData == txnOrders[orderId]
         IN  IF ~txnData.ok \/ transactionStatus = "throws"
             THEN LookupError(404, "Pedido \"fantasma\" invalido ou nao encontrado")
             ELSE [NoLookup EXCEPT !.code = 200,
                                   !.order = fakeOrder(orderId, txnData.data,
                                                       transactionStatus)]
    ELSE LET row == FindOrder(orders, orderId)
         IN  IF row = 0 THEN LookupError(404, "Pedido nao encontrado")
             ELSE IF AccessDenied(orders[row], user) THEN LookupError(403, "Acesso negado")
             ELSE [NoLookup EXCEPT !.code = 200, !.order = OrderWithPrice(orders[row])]

\* A user asks for an order; for a token the gateway is asked for the status
\* of its transaction.
GetOrder ==
    /\ \E orderId \in LookupIds, user \in Viewers, status \in TransactionStatuses :
          lookup' = [GetOrderHandler(orderId, user, status) EXCEPT
                        !.asked = orderId, !.by = user.userId, !.role = user.role,
                        !.gateway = IF StartsWith(orderId, TxnPrefix) THEN status
                                    ELSE "none"]
    /\ UNCHANGED <<payVars, catVars, codec, svcVars>>

(***************************************************************************)
(* Initial states and specifications.                                      *)
(***************************************************************************)
\* The products table that the server starts on: an active and a retired
\* product.
InitialProducts ==
    <<[exists |-> TRUE, isActive |-> TRUE], [exists |-> TRUE, isActive |-> FALSE]>>

ProductOfPrice == [p \in PriceIds |-> IF p = "p1" THEN 1 ELSE 2]

InitialPrices ==
    [p \in PriceIds |->
        [exists |-> TRUE, productId |-> ProductOfPrice[p],
         active |-> InitialProducts[ProductOfPrice[p]].isActive,
         deliveryLink |-> <<"L", "-", "2">>, amount |-> 990,
         currency |-> <<"B", "R", "L">>, category |-> <<"V", "I", "P">>,
         productName |-> <<"P", "a", "c", "k", " ", "1">>]]

\* The payment flow on an empty orders table.
PayInit ==
    /\ orders = <<>>
    /\ aged = 0
    /\ prices = InitialPrices
    /\ hooks = [h \in Hooks |-> IdleHook]
    /\ answer = NoAnswer
    /\ delivered = {}
    /\ requests = [r \in Requests |-> IdleRequest]
    /\ expired = 0

CatInit ==
    /\ products = InitialProducts
    /\ regions = {}
    /\ reply = NoReply

\* A row that initiate-payment has left in the table: PENDING, with the
\* transaction id of its gateway stored, or without when the gateway call failed.
PersistedRows(n) ==
    { [NewOrder([userId |-> u, priceId |-> "p1", gateway |-> "pushinpay"], n)
          EXCEPT !.pushinpayTxId = tx] : u \in Users, tx \in PaymentTxIds \cup {Null} }
    \cup
    { [NewOrder([userId |-> u, priceId |-> "p1", gateway |-> "syncpay"], n)
          EXCEPT !.syncpayTxId = tx] : u \in Users, tx \in PaymentTxIds \cup {Null} }

\* The server starts on a database that holds the orders of earlier payments.
Init ==
    /\ orders \in [1..MaxOrders -> UNION {PersistedRows(n) : n \in 1..MaxOrders}]
    /\ \A n \in 1..MaxOrders : orders[n] \in PersistedRows(n)
    /\ aged = 0
    /\ prices = InitialPrices
    /\ hooks = [h \in Hooks |-> IdleHook]
    /\ answer = NoAnswer
    /\ delivered = {}
    /\ requests = [r \in Requests |-> IdleRequest]
    /\ expired = 0
    /\ CatInit
    /\ codec = CodecIdle
    /\ ServiceInit
    /\ lookup = NoLookup

\* Webhook reconciliation, order expiration and the admin's price edits.
Next ==
    \/ \E h \in Hooks : PushinPayWebhook(h)
    \/ \E h \in Hooks : SyncPayWebhook(h)
    \/ \E h \in Hooks : WebhookUpdate(h)
    \/ expirePendingOrders
    \/ Age
    \/ \E p \in AdminPriceIds : DeletePrice(p)
    \/ \E p \in AdminPriceIds : BulkUpdatePrices(p)

Spec == Init /\ [][Next]_vars

\* The same with the timer of startOrderExpirationJob kept running: time
\* passes, and the job keeps being run with an update that succeeds.
SpecJob == Init /\ [][Next]_vars /\ WF_vars(Age) /\ WF_vars(ExpireRun(TRUE))

InitiateInit == PayInit /\ CatInit /\ codec = CodecIdle /\ ServiceInit
    /\ lookup = NoLookup

\* Payment initiation next to one webhook handler, the expiration job and
\* the admin's price edits.
InitiateNext ==
    \/ \E r \in Requests : InitiatePayment(r)
    \/ \E r \in Requests : CreateOrder(r)
    \/ \E r \in Requests : GatewayReply(r)
    \/ \E r \in Requests : UpdateOrder(r)
    \/ PushinPayWebhook(1)
    \/ SyncPayWebhook(1)
    \/ WebhookUpdate(1)
    \/ expirePendingOrders
    \/ Age
    \/ \E p \in AdminPriceIds : DeletePrice(p)
    \/ \E p \in AdminPriceIds : BulkUpdatePrices(p)

SpecInitiate == InitiateInit /\ [][InitiateNext]_vars

\* Payment initiation on its own, next to the admin's price edits.
RequestNext ==
    \/ \E r \in Requests : InitiatePayment(r)
    \/ \E r \in Requests : CreateOrder(r)
    \/ \E r \in Requests : GatewayReply(r)
    \/ \E r \in Requests : UpdateOrder(r)
    \/ \E p \in AdminPriceIds : DeletePrice(p)
    \/ \E p \in AdminPriceIds : BulkUpdatePrices(p)

SpecRequest == InitiateInit /\ [][RequestNext]_vars

\* The two gateway services under calls that overlap, while time passes.
ServiceNext ==
    \/ \E c \in Calls : SyncPayCreatePixPayment(c)
    \/ \E c \in Calls : SyncPayRetry(c)
    \/ \E c \in Calls : AuthReply(c)
    \/ \E c \in Calls : CashInReply(c)
    \/ \E c \in Calls : PushinPayCreatePixPayment(c)
    \/ \E c \in Calls : PushinPayReply(c)
    \/ \E c \in Calls : CallReturns(c)
    \/ resetToken
    \/ Tick

SpecService == InitiateInit /\ [][ServiceNext]_vars

\* The same with every request answered or timed out by axios (timeout:
\* 30000), and every continuation run by the event loop.
SpecServiceLive ==
    /\ InitiateInit
    /\ [][ServiceNext]_vars
    /\ \A c \in Calls : /\ WF_vars(AuthReply(c))
                        /\ WF_vars(CashInReply(c))
                        /\ WF_vars(SyncPayRetry(c))
                        /\ WF_vars(PushinPayReply(c))

\* A row of the orders table at any point of its life: as initiate-payment
\* left it, or as a webhook handler or the job left it afterwards.
StoredRows(n) ==
    PersistedRows(n)
    \cup {[row EXCEPT !.status = "FAILED"] : row \in PersistedRows(n)}
    \cup {[row EXCEPT !.status = "COMPLETED", !.downloadLink = InitialPrices["p1"].deliveryLink]
             : row \in PersistedRows(n)}

\* The job on a table of orders of every status and age.
ExpiryInit ==
    /\ orders \in [1..MaxStored -> UNION {StoredRows(n) : n \in 1..MaxStored}]
    /\ \A n \in 1..MaxStored : orders[n] \in StoredRows(n)
    /\ aged \in 0..MaxStored
    /\ prices = InitialPrices
    /\ hooks = [h \in Hooks |-> IdleHook]
    /\ answer = NoAnswer
    /\ delivered = {}
    /\ requests = [r \in Requests |-> IdleRequest]
    /\ expired = 0
    /\ CatInit
    /\ codec = CodecIdle
    /\ ServiceInit
    /\ lookup = NoLookup

ExpiryNext == expirePendingOrders \/ Age

SpecExpiry == ExpiryInit /\ [][ExpiryNext]_vars

\* The rows that orders are looked up in: one of every status.
LookupInit ==
    /\ orders \in [1..MaxOrders -> UNION {StoredRows(n) : n \in 1..MaxOrders}]
    /\ \A n \in 1..MaxOrders : orders[n] \in StoredRows(n)
    /\ aged = 0
    /\ prices = InitialPrices
    /\ hooks = [h \in Hooks |-> IdleHook]
    /\ answer = NoAnswer
    /\ delivered = {}
    /\ requests = [r \in Requests |-> IdleRequest]
    /\ expired = 0
    /\ CatInit
    /\ codec = CodecIdle
    /\ ServiceInit
    /\ lookup = NoLookup

\* Lookups of orders next to the admin's price edits.
LookupNext ==
    \/ GetOrder
    \/ \E p \in AdminPriceIds : DeletePrice(p)
    \/ \E p \in AdminPriceIds : BulkUpdatePrices(p)

SpecLookup == LookupInit /\ [][LookupNext]_vars

\* Lookups on the orders that the server starts on.
GhostLookupNext == GetOrder

SpecGhostLookup == Init /\ [][GhostLookupNext]_vars

CodecInit == PayInit /\ CatInit /\ codec = CodecIdle /\ ServiceInit
    /\ lookup = NoLookup

CodecNext == CodecEncrypt \/ CodecDecrypt

SpecCodec == CodecInit /\ [][CodecNext]_vars

\* The catalogue on a database with one product, one price and one sale.
CatalogInit ==
    /\ orders = <<[NewOrder([userId |-> "u1", priceId |-> "p1", gateway |-> "pushinpay"], 1)
                     EXCEPT !.status = "COMPLETED", !.pushinpayTxId = <<"9", "c", "-", "4", "b">>,
                            !.downloadLink = InitialPrices["p1"].deliveryLink]>>
    /\ aged = 0
    /\ prices = [InitialPrices EXCEPT !["p2"] = NoPrice]
    /\ hooks = [h \in Hooks |-> IdleHook]
    /\ answer = NoAnswer
    /\ delivered = {}
    /\ requests = [r \in Requests |-> IdleRequest]
    /\ expired = 0
    /\ products = <<InitialProducts[1]>>
    /\ regions = {}
    /\ reply = NoReply
    /\ codec = CodecIdle
    /\ ServiceInit
    /\ lookup = NoLookup

CatalogNext ==
    \/ GetProducts
    \/ GetProduct
    \/ CreateProduct
    \/ UpdateProduct
    \/ DeleteProduct
    \/ AddProductRegion
    \/ DeleteProductRegion

SpecCatalog == CatalogInit /\ [][CatalogNext]_vars

(***************************************************************************)
(* Properties of webhook reconciliation.                                   *)
(***************************************************************************)
\* C1: over any interleaving of webhook handlers and runs of the expiration
\* job, an order that is COMPLETED or FAILED never changes status again.
OrderStatusSettlesOnce ==
    [][\A n \in 1..Len(orders) :
          orders[n].status # "PENDING" => orders'[n].status = orders[n].status]_vars

\* C2: a delivery that repeats one whose handler has moved the order out of
\* PENDING never gets to an update; it leaves the orders as they are and is
\* answered 200 with the 'ignored' message.
ReplayedWebhookIsIgnored ==
    [][/\ \A h \in Hooks : ~hooks'[h].replay
       /\ (answer' # answer /\ answer'.replay) =>
             /\ orders' = orders
             /\ answer'.code = 200
             /\ answer'.message = Ignored
             /\ ~answer'.wrote]_vars

\* C2, its case: a repeated delivery has been answered.
ReplayWasAnswered ==
    /\ answer.replay
    /\ answer.message = Ignored
    /\ delivered # {}

\* C3: a step of a webhook handler changes the orders only if that handler
\* had read PENDING; a handler that has read COMPLETED or FAILED never waits
\* for an update.
HandlerWritesOnlyAfterPending ==
    [][/\ \A h \in Hooks : hooks'[h].pc = "update" => hooks'[h].seen = "PENDING"
       /\ ((hooks' # hooks \/ answer' # answer) /\ orders' # orders) =>
             \E h \in Hooks : /\ hooks[h].pc = "update"
                              /\ hooks'[h].pc = "idle"
                              /\ hooks[h].seen = "PENDING"]_vars

\* C3, its case: the expiration job failed the order, no webhook has written
\* it, and a notification of a payment was answered without an update.
PaidAfterExpiryWasIgnored ==
    /\ delivered = {}
    /\ \E n \in 1..Len(orders) : orders[n].status = "FAILED"
    /\ answer.seen = "FAILED"
    /\ answer.paid
    /\ ~answer.wrote
    /\ answer.message = Ignored

\* C4: the update of a handler that has read PENDING takes effect whatever
\* the status of the order is by then: the later write decides the status.
LaterWriteDecides ==
    [][\A h \in Hooks :
          (hooks[h].pc = "update" /\ hooks'[h].pc = "idle") =>
              orders'[hooks[h].row].status = hooks[h].data.status]_vars

\* C4, its case: two deliveries for one order were both past the guard
\* before either wrote; one completed the order and the later one failed it.
BothHandlersWrote ==
    \E n \in 1..Len(orders) :
        /\ orders[n].status = "FAILED"
        /\ orders[n].downloadLink # Null
        /\ Cardinality({d \in delivered : d[2] = orders[n].id}) >= 2

(***************************************************************************)
(* Properties of the catalogue.                                            *)
(***************************************************************************)
\* C5: after any admin operations on products and regions, the listing
\* returns a product if and only if it is active, has at least one region,
\* the viewer's country is determined, and one of its regions equals that
\* country or is NON_BR while the country is not BR.
ListingReturnsExactlyTheVisible ==
    reply.route = "list" =>
        LET cc     == reply.cc
            listed == {reply.products[i].id : i \in 1..Len(reply.products)}
        IN  \A id \in ProductIds :
                id \in listed <=>
                    /\ id \in 1..Len(products)
                    /\ products[id].exists
                    /\ products[id].isActive
                    /\ \E region \in regions : region.productId = id
                    /\ cc # Null
                    /\ cc # <<>>
                    /\ \E region \in regions :
                          /\ region.productId = id
                          /\ \/ region.countryCode = cc
                             \/ region.countryCode = NON_BR /\ cc # BR

\* C5, its case: a listing that returned one product and held back another
\* active product that has regions.
ListingHeldBackAProduct ==
    /\ reply.route = "list"
    /\ Len(reply.products) = 1
    /\ \E id \in ProductIds :
          /\ Found(id)
          /\ products[id].isActive
          /\ RegionsOf(id) # {}
          /\ id # reply.products[1].id

\* C6: a product without regions is never in the listing, and the
\* single-product route never returns it: it answers 403 when the product
\* is active and 404 when it is not.
ZeroRegionProductIsNeverReturned ==
    /\ reply.route = "list" =>
          \A i \in 1..Len(reply.products) : RegionsOf(reply.products[i].id) # {}
    /\ (reply.route = "get" /\ Found(reply.id) /\ RegionsOf(reply.id) = {}) =>
          /\ reply.product = 0
          /\ reply.code = IF products[reply.id].isActive THEN 403 ELSE 404

\* C6 as the specification words it: the single-product route answers 403
\* for every product without regions.
ZeroRegionProductAnswers403 ==
    /\ reply.route = "list" =>
          \A i \in 1..Len(reply.products) : RegionsOf(reply.products[i].id) # {}
    /\ (reply.route = "get" /\ Found(reply.id) /\ RegionsOf(reply.id) = {}) =>
          /\ reply.product = 0
          /\ reply.code = 403

\* C6, its case: the single-product route was asked for a retired product
\* without regions.
RetiredZeroRegionProductAsked ==
    /\ reply.route = "get"
    /\ Found(reply.id)
    /\ RegionsOf(reply.id) = {}
    /\ ~products[reply.id].isActive
    /\ reply.code = 404

\* C7: a product whose only region is NON_BR is returned for every
\* determined viewer country except BR and not for BR; a viewer without a
\* determined country is returned nothing.
NonBrMatchesAllButBrazil ==
    LET onlyNonBr(id) == /\ Found(id)
                         /\ products[id].isActive
                         /\ {region.countryCode : region \in RegionsOf(id)} = {NON_BR}
        determined    == reply.cc # Null /\ reply.cc # <<>>
        listed        == {reply.products[i].id : i \in 1..Len(reply.products)}
    IN  /\ (reply.route = "get" /\ onlyNonBr(reply.id)) =>
              (reply.code = 200 <=> (determined /\ reply.cc # BR))
        /\ reply.route = "list" =>
              \A id \in ProductIds :
                  onlyNonBr(id) => (id \in listed <=> (determined /\ reply.cc # BR))
        /\ (reply.route = "list" /\ ~determined) => reply.products = <<>>
        /\ (reply.route = "get" /\ ~determined) => reply.code # 200

\* C7, its case: a viewer from a country that no region names was given a
\* product whose only region is NON_BR.
NonBrProductGiven ==
    /\ reply.route = "get"
    /\ reply.code = 200
    /\ reply.cc = <<"D", "E">>
    /\ {region.countryCode : region \in RegionsOf(reply.id)} = {NON_BR}

(***************************************************************************)
(* Properties of the ghost-order token.                                    *)
(***************************************************************************)
\* C8: for every ghost-order record and every IV drawn, the token that
\* encrypttxnOrder returns starts with txn_, and decrypttxnOrder of that
\* token returns a record equal to the original in every field; the decoder
\* is a function of the token alone.
GhostOrderRoundTrips ==
    /\ codec.pc # "idle" => StartsWith(codec.token, TxnPrefix)
    /\ codec.pc = "decrypted" =>
          /\ codec.out.ok
          /\ codec.out.data.txId = codec.data.txId
          /\ codec.out.data.downloadLink = codec.data.downloadLink
          /\ codec.out.data.price.amount = codec.data.price.amount
          /\ codec.out.data.price.currency = codec.data.price.currency
          /\ codec.out.data.price.category = codec.data.price.category
          /\ codec.out.data.price.productName = codec.data.price.productName
          /\ codec.out.data = codec.data

\* C8, its case: a record with a hyphen in its transaction id, quotes in
\* its category and no delivery link went through both functions.
GhostOrderWentThrough ==
    /\ codec.pc = "decrypted"
    /\ codec.out.ok
    /\ codec.data.txId = <<"9", "c", "-", "4", "b">>
    /\ codec.data.price.category = <<"H", "D", " ", "\"", "4", "K", "\"">>
    /\ codec.data.downloadLink = Null

(***************************************************************************)
(* Properties of payment initiation.                                       *)
(***************************************************************************)
\* C9: no step of a diverted initiate-payment request changes the orders
\* table, whether its gateway call succeeds or fails; the orderId that it
\* answers on success is a txn_ token and the id of no stored order.
DivertedRequestLeavesOrdersAlone ==
    [][\A r \in Requests :
          (requests'[r] # requests[r] /\ (requests[r].diverted \/ requests'[r].diverted)) =>
              /\ orders' = orders
              /\ (requests'[r].pc = "done" /\ requests'[r].code = 200
                                           /\ requests'[r].diverted) =>
                    /\ StartsWith(requests'[r].orderId, TxnPrefix)
                    /\ FindOrder(orders', requests'[r].orderId) = 0
                    /\ requests'[r].made = 0]_vars

\* C9, its case: next to a stored order, a diverted request has answered
\* success.
DivertedRequestSucceeded ==
    \E r \in Requests :
        /\ requests[r].pc = "done"
        /\ requests[r].code = 200
        /\ requests[r].diverted
        /\ requests[r].answered = "pushinpay"
        /\ Len(orders) = 1

\* C10: a regular initiate-payment request first adds one order that is
\* PENDING and carries the caller's userId, the requested priceId and the
\* requested gateway; its gateway call changes no order; its last step
\* stores the transaction id of the gateway on that order, in the field of
\* that gateway, and changes nothing else; the success answer names that
\* order and that transaction id, and one order was added.  The request
\* never changes a status: when it answers, the order is PENDING unless a
\* webhook handler or the expiration job has moved it in the meantime.
RegularRequestAddsOnePendingOrder ==
    [][\A r \in Requests :
          LET req  == requests[r]
              done == requests'[r]
          IN  /\ (req.pc = "create" /\ done.pc = "gateway") =>
                    /\ ~req.diverted
                    /\ Len(orders') = Len(orders) + 1
                    /\ SubSeq(orders', 1, Len(orders)) = orders
                    /\ done.row = Len(orders')
                    /\ orders'[done.row].status = "PENDING"
                    /\ orders'[done.row].userId = req.userId
                    /\ orders'[done.row].priceId = req.priceId
                    /\ orders'[done.row].gateway =
                          (IF req.gateway = "pushinpay" THEN "PUSHINPAY" ELSE "SYNCPAY")
                    /\ orders'[done.row].pushinpayTxId = Null
                    /\ orders'[done.row].syncpayTxId = Null
              /\ (req.pc = "gateway" /\ done # req) => orders' = orders
              /\ (req.pc = "store" /\ done # req) =>
                    /\ done.pc = "done"
                    /\ done.code = 200
                    /\ done.made = 1
                    /\ done.orderId = orders'[req.row].id
                    /\ done.transactionId # Null
                    /\ orders' = IF req.gateway = "pushinpay"
                                 THEN [orders EXCEPT ![req.row].pushinpayTxId = done.transactionId]
                                 ELSE [orders EXCEPT ![req.row].syncpayTxId = done.transactionId]
                    /\ \/ orders'[req.row].status = "PENDING"
                       \/ \E d \in delivered : d[2] = orders'[req.row].id
                       \/ orders'[req.row].status = "FAILED" /\ req.row <= aged]_vars

\* C10 as the specification words it: the order is PENDING whenever the
\* request answers success.
RegularRequestAnswersWithPendingOrder ==
    [][\A r \in Requests :
          (requests[r].pc = "store" /\ requests'[r].pc = "done") =>
              /\ requests'[r].code = 200
              /\ requests'[r].made = 1
              /\ requests'[r].orderId = orders'[requests[r].row].id
              /\ orders'[requests[r].row].status = "PENDING"]_vars

\* C10, its case: a regular SyncPay request has answered success and its
\* order is PENDING with the transaction id of the answer.
RegularRequestSucceeded ==
    \E r \in Requests :
        /\ requests[r].pc = "done"
        /\ requests[r].code = 200
        /\ ~requests[r].diverted
        /\ requests[r].made = 1
        /\ requests[r].answered = "syncpay"
        /\ orders[requests[r].row].id = requests[r].orderId
        /\ orders[requests[r].row].status = "PENDING"
        /\ orders[requests[r].row].syncpayTxId = requests[r].transactionId

\* C11: in every state of the database, an authenticated and well-formed
\* initiate-payment request for a price that does not exist is answered 404
\* and one for a price of a product that is not active is answered 400,
\* whatever the diversion draw would be; the handler ends there, before any
\* order is created and before any gateway is called, and the step that
\* answers 400 or 404 leaves the orders as they are.
UnavailablePriceIsRejected ==
    [][/\ \A body \in Bodies, userId \in Users, draw \in Draws :
             LET gateway == IF body.gateway = "undefined" THEN "pushinpay" ELSE body.gateway
                 wellFormed == /\ body.priceId # "undefined"
                               /\ gateway \in {"pushinpay", "syncpay"}
                               /\ gateway = "syncpay" => body.clientInfo = AllClientInfo
                 there   == body.priceId \in PriceIds /\ prices[body.priceId].exists
                 retired == there /\ ~prices[body.priceId].active
                 next    == InitiateHandler(body, userId, draw)
             IN  /\ (wellFormed /\ ~there) =>
                       next.pc = "done" /\ next.code = 404 /\ next.made = 0
                 /\ (wellFormed /\ retired) =>
                       next.pc = "done" /\ next.code = 400 /\ next.made = 0
                 /\ (~there \/ retired) => next.pc = "done"
       /\ \A r \in Requests :
             (/\ requests[r].pc \in {"idle", "done"}
              /\ requests'[r] # requests[r]
              /\ requests'[r].pc = "done") =>
                 /\ orders' = orders
                 /\ requests'[r].code \in {400, 401, 404}
                 /\ requests'[r].made = 0
                 /\ requests'[r].answered = "none"]_vars

\* C11, its case: while an order is stored, a request for a price of a
\* retired product has been answered 400.
RetiredProductWasRejected ==
    \E r \in Requests :
        /\ requests[r].pc = "done"
        /\ requests[r].code = 400
        /\ requests[r].error = "Produto nao esta disponivel"
        /\ Len(orders) = 1

ExpiryRunFailsExactlyTheDue ==
    [][expirePendingOrders =>
          LET due == {n \in 1..Len(orders) : orders[n].status = "PENDING" /\ n <= aged}
          IN  /\ Len(orders') = Len(orders)
              /\ \A n \in 1..Len(orders) :
                    /\ n \notin due => orders'[n] = orders[n]
                    /\ orders'[n] \in {orders[n], [orders[n] EXCEPT !.status = "FAILED"]}
              /\ \/ /\ \A n \in due : orders'[n].status = "FAILED"
                    /\ expired' = Cardinality(due)
                    /\ expired' = Cardinality({n \in 1..Len(orders) : orders'[n] # orders[n]})
                 \/ /\ orders' = orders
                    /\ expired' = 0
              /\ UNCHANGED <<aged, prices, hooks, answer, delivered, requests, catVars, codec, lookup, svcVars>>]_vars

\* C13, its case: a run has failed two orders and returned 2, next to a
\* younger PENDING order and a COMPLETED one.
ExpiryRunFailedTwo ==
    /\ expired = 2
    /\ \E n \in 1..Len(orders) : orders[n].status = "PENDING" /\ n > aged
    /\ Cardinality({n \in 1..Len(orders) : orders[n].status = "FAILED"}) >= 2

\* C14: while the job keeps being run and its update succeeds, every stored
\* order that is PENDING eventually is not, whether or not a webhook
\* resolves it; and every run whose update succeeds fails the orders that
\* are PENDING and over 30 minutes old at that time.
EveryOrderLeavesPending ==
    /\ \A n \in 1..MaxOrders :
          (n <= Len(orders) /\ orders[n].status = "PENDING")
              ~> (n <= Len(orders) /\ orders[n].status # "PENDING")
    /\ [][ExpireRun(TRUE) =>
             \A n \in 1..Len(orders) :
                 (orders[n].status = "PENDING" /\ n <= aged) => orders'[n].status = "FAILED"]_vars

\* C14, its case: an order that no webhook handler has written was failed by
\* a run of the job.
JobFailedUnresolvedOrder ==
    /\ delivered = {}
    /\ \A h \in Hooks : hooks[h].pc # "update"
    /\ expired = 1
    /\ orders[1].status = "FAILED"

\* C15: the gateway call of a diverted request is made on the service that
\* getPaymentService(true) hands out, with the webhook URL
\* /api/payments/webhook/diverted, whatever gateway the client asked for;
\* no diverted request ever holds a call of the SyncPay service, and the
\* success answer of a diverted request reports gateway pushinpay.
DivertedCallsPublicPushinPay ==
    [][\A r \in Requests :
          /\ (requests[r].pc = "gateway" /\ requests[r].diverted
                                         /\ requests'[r] # requests[r]) =>
                /\ requests'[r].call.factory = "getPaymentService"
                /\ requests'[r].call.public
                /\ requests'[r].call.url = <<"/api/payments/webhook/",
                                             <<"d", "i", "v", "e", "r", "t", "e", "d">> >>
                /\ requests'[r].code = 200 =>
                      /\ requests'[r].answered = "pushinpay"
                      /\ requests'[r].gateway = requests[r].gateway
                /\ requests'[r].code # 200 =>
                      requests'[r].message \in GatewayErrors("pushinpay")
          /\ requests'[r].diverted => requests'[r].call.factory # "getSyncPayService"]_vars

\* C15, its case: a diverted request that asked for SyncPay has answered
\* success.
DivertedSyncPayRequestSucceeded ==
    \E r \in Requests :
        /\ requests[r].pc = "done"
        /\ requests[r].code = 200
        /\ requests[r].diverted
        /\ requests[r].gateway = "syncpay"
        /\ requests[r].answered = "pushinpay"
        /\ requests[r].call.public

(***************************************************************************)
(* Properties of the status mapping of the webhook handlers.               *)
(***************************************************************************)
\* C16: a PushinPay notification for an order that is PENDING when the
\* handler loads it and still PENDING when the handler writes: 'paid' makes
\* the order COMPLETED with the deliveryLink of the price that the handler
\* loaded as its downloadLink, and COMPLETED with no downloadLink when the
\* order had no price; 'expired' makes it FAILED; any other status never gets
\* to an update and leaves the orders as they are.  Each of these handlers
\* answers 200.
PushinPayStatusDecides ==
    [][/\ \A h \in Hooks :
            (hooks[h].pc = "idle" /\ hooks'[h].pc = "update"
                                  /\ hooks'[h].route = "webhook") =>
                LET hook == hooks'[h]
                    order == orders[hook.row]
                IN  /\ hook.seen = "PENDING"
                    /\ order.status = "PENDING"
                    /\ hook.payload \in {"paid", "expired"}
                    /\ hook.payload = "expired" =>
                          hook.data = [status |-> "FAILED", setLink |-> FALSE,
                                       downloadLink |-> Null]
                    /\ (hook.payload = "paid" /\ order.priceId = NoPriceId) =>
                          hook.data = [status |-> "COMPLETED", setLink |-> FALSE,
                                       downloadLink |-> Null]
                    /\ (hook.payload = "paid" /\ order.priceId # NoPriceId) =>
                          hook.data = [status |-> "COMPLETED", setLink |-> TRUE,
                                       downloadLink |-> prices[order.priceId].deliveryLink]
       /\ \A h \in Hooks :
            (hooks[h].pc = "update" /\ hooks'[h].pc = "idle"
                                    /\ hooks[h].route = "webhook"
                                    /\ orders[hooks[h].row].status = "PENDING") =>
                LET hook == hooks[h]
                    before == orders[hook.row]
                    after == orders'[hook.row]
                IN  /\ after = [before EXCEPT !.status = after.status,
                                              !.downloadLink = after.downloadLink]
                    /\ hook.payload = "expired" =>
                          after.status = "FAILED" /\ after.downloadLink = Null
                    /\ hook.payload = "paid" =>
                          /\ after.status = "COMPLETED"
                          /\ after.downloadLink = hook.data.downloadLink
                    /\ answer'.code = 200
                    /\ answer'.wrote
       /\ \A id \in WebhookIds \ {DivertedId}, status \in PushinPayStatuses :
            LET row == FindOrder(orders, id)
            IN  (row # 0 /\ orders[row].status = "PENDING"
                         /\ status \notin {"paid", "expired"}) =>
                    /\ PushinPayHandler(id, status).pc = "done"
                    /\ PushinPayHandler(id, status).code = 200
                    /\ PushinPayHandler(id, status).data = NoUpdate
       /\ (answer' # answer /\ ~answer'.wrote /\ answer'.seen = "PENDING"
                            /\ answer'.message = "Webhook processado") =>
              /\ orders' = orders
              /\ answer'.code = 200
              /\ ~answer'.paid]_vars

\* C16, its case: the price of a PENDING order was deleted, a 'paid'
\* notification of PushinPay completed the order, and it has no downloadLink.
PaidOrderWithoutPriceCompleted ==
    \E n \in 1..Len(orders) :
        /\ orders[n].status = "COMPLETED"
        /\ orders[n].priceId = NoPriceId
        /\ orders[n].downloadLink = Null
        /\ delivered = {<<"webhook", orders[n].id, "paid">>}
        /\ answer.code = 200
        /\ answer.wrote

\* C17: a SyncPay notification for an order that is PENDING when the handler
\* loads it and still PENDING when the handler writes: PAID_OUT makes the
\* order COMPLETED with the deliveryLink of the price that the handler loaded
\* as its downloadLink, and COMPLETED with no downloadLink when the order had
\* no price; FAILED and REFUNDED make it FAILED; PENDING and MED never get to
\* an update and leave the orders as they are, and the handler of a PAID_OUT
\* notification for an order that is PENDING goes on to complete it.
SyncPayStatusDecides ==
    [][/\ \A h \in Hooks :
            (hooks[h].pc = "idle" /\ hooks'[h].pc = "update"
                                  /\ hooks'[h].route = "webhook-syncpay") =>
                LET hook == hooks'[h]
                    order == orders[hook.row]
                IN  /\ hook.seen = "PENDING"
                    /\ order.status = "PENDING"
                    /\ hook.payload \in {"PAID_OUT", "FAILED", "REFUNDED"}
                    /\ hook.payload \in {"FAILED", "REFUNDED"} =>
                          hook.data = [status |-> "FAILED", setLink |-> FALSE,
                                       downloadLink |-> Null]
                    /\ (hook.payload = "PAID_OUT" /\ order.priceId = NoPriceId) =>
                          hook.data = [status |-> "COMPLETED", setLink |-> FALSE,
                                       downloadLink |-> Null]
                    /\ (hook.payload = "PAID_OUT" /\ order.priceId # NoPriceId) =>
                          hook.data = [status |-> "COMPLETED", setLink |-> TRUE,
                                       downloadLink |-> prices[order.priceId].deliveryLink]
       /\ \A h \in Hooks :
            (hooks[h].pc = "update" /\ hooks'[h].pc = "idle"
                                    /\ hooks[h].route = "webhook-syncpay"
                                    /\ orders[hooks[h].row].status = "PENDING") =>
                LET hook == hooks[h]
                    before == orders[hook.row]
                    after == orders'[hook.row]
                IN  /\ after = [before EXCEPT !.status = after.status,
                                              !.downloadLink = after.downloadLink]
                    /\ hook.payload \in {"FAILED", "REFUNDED"} =>
                          after.status = "FAILED" /\ after.downloadLink = Null
                    /\ hook.payload = "PAID_OUT" =>
                          /\ after.status = "COMPLETED"
                          /\ after.downloadLink = hook.data.downloadLink
       /\ \A id \in WebhookIds \ {DivertedId} :
            LET row == FindOrder(orders, id)
            IN  (row # 0 /\ orders[row].status = "PENDING") =>
                    /\ \A status \in {"PENDING", "MED"} :
                          /\ SyncPayHandler(id, status).pc = "done"
                          /\ SyncPayHandler(id, status).data = NoUpdate
                    /\ SyncPayHandler(id, "PAID_OUT").pc = "update"
                    /\ SyncPayHandler(id, "PAID_OUT").data.status = "COMPLETED"
       /\ (answer' # answer /\ ~answer'.wrote /\ answer'.seen = "PENDING"
                            /\ answer'.message = "Webhook do SyncPay processado") =>
              /\ orders' = orders
              /\ ~answer'.paid]_vars

\* C17, its case: a SyncPay notification that reports no payment was
\* answered for the order, which stayed PENDING with nothing written, and
\* the handler of a later PAID_OUT notification is on its way to complete it.
PaidOutAfterPendingNotice ==
    \E h \in Hooks :
        /\ answer.message = "Webhook do SyncPay processado"
        /\ answer.seen = "PENDING"
        /\ ~answer.wrote
        /\ delivered = {}
        /\ hooks[h].pc = "update"
        /\ hooks[h].route = "webhook-syncpay"
        /\ hooks[h].payload = "PAID_OUT"
        /\ hooks[h].data.status = "COMPLETED"
        /\ orders[hooks[h].row].status = "PENDING"

(***************************************************************************)
(* Properties of the gateway services.                                     *)
(***************************************************************************)
\* The requests of one kind that a call has sent.
SentOf(call, kind) == Cardinality({i \in 1..Len(call.sent) : call.sent[i] = kind})

\* C18: every call of SyncPayService.createPixPayment comes to an end, and
\* it sends at most two cash-in requests.  A 401 to its first cash-in
\* request makes it send one forced auth-token request, and there is no
\* other forced one; the second cash-in request is sent only by the retry
\* that follows; a 401 to the second makes it throw 'Failed to authenticate
\* with SyncPay after retry' with nothing more sent; an answer that is
\* neither a success nor a 401 makes it throw with nothing more sent.
CreatePixPaymentRetriesOnce ==
    /\ \A c \in Calls :
          (calls[c].service = "syncpay" /\ calls[c].pc # "done") ~> (calls[c].pc = "done")
    /\ [][\A c \in Calls :
            LET call == calls[c]
                next == calls'[c]
                answered == next.replies # call.replies
                status == next.replies[Len(next.replies)]
            IN  next.service = "syncpay" =>
                  /\ SentOf(next, "cash-in") <= 2
                  /\ Len(next.replies) <= SentOf(next, "cash-in")
                  /\ next.retryCount = (IF SentOf(next, "cash-in") = 2 THEN 1
                                        ELSE next.retryCount)
                  /\ next.retryCount <= 1
                  /\ (next.forced /\ ~call.forced) =>
                        /\ answered
                        /\ next.replies = <<401>>
                        /\ next.pc = "auth"
                        /\ next.sent = Append(call.sent, "auth-token")
                  /\ (answered /\ next.replies = <<401>>) =>
                        next.forced /\ ~call.forced
                  /\ (answered /\ next.replies = <<401, 401>>) =>
                        /\ next.pc = "done"
                        /\ next.error = RetryError
                        /\ next.sent = call.sent
                  /\ (answered /\ status \notin {200, 401}) =>
                        /\ next.pc = "done"
                        /\ next.error \in {SyncPayError(upstream) : upstream \in UpstreamErrors}
                        /\ next.sent = call.sent
                  /\ (next.pc = "done" /\ next.error = RetryError) =>
                        next.replies = <<401, 401>>]_vars

\* C18, its case: a call got 401 to its cash-in request, authenticated anew,
\* sent the request again, got 401 again and threw.
SecondUnauthorizedWasRaised ==
    \E c \in Calls :
        /\ calls[c].pc = "done"
        /\ calls[c].service = "syncpay"
        /\ calls[c].replies = <<401, 401>>
        /\ calls[c].retryCount = 1
        /\ calls[c].error = RetryError
        /\ SentOf(calls[c], "cash-in") = 2

\* The service holds a token that is more than 300 seconds short of the
\* expiry that the gateway reported for it.
HoldsUnexpiredToken ==
    /\ syncpay.accessToken # Null
    /\ reportedExpiry # NoDate
    /\ now < reportedExpiry[1] - 300

\* accessToken, tokenExpiresAt and the Authorization header are all set, the
\* header being the bearer of the token, or all absent.
TokenDataWhole(data) ==
    \/ data = NoToken
    \/ /\ data.accessToken # Null
       /\ data.tokenExpiresAt # NoDate
       /\ data.authorization = <<"Bearer ", data.accessToken>>

\* A call enters createPixPayment with an amount that passes, or its catch
\* forces a refresh: the steps in which authenticate is called.
Authenticates(c) ==
    \/ /\ calls[c].pc \in {"idle", "retry"}
       /\ calls'[c].service = "syncpay"
       /\ calls'[c].pc \in {"auth", "cash-in"}
    \/ /\ calls[c].pc = "cash-in"
       /\ calls'[c].pc = "auth"

\* What C19 says of every step but the one after a failed authentication
\* request: authenticate sends an auth-token request exactly when the
\* refresh is forced or the service holds no unexpired token, a token being
\* unexpired until 300 seconds before the expiry that the gateway reported;
\* and the three fields of the token data are all set or all absent.
AuthenticatesWhenDue ==
    /\ TokenDataWhole(syncpay')
    /\ isTokenValid <=> HoldsUnexpiredToken
    /\ \A c \in Calls :
          /\ Authenticates(c) =>
                ((calls'[c].sent = Append(calls[c].sent, "auth-token"))
                    <=> (calls'[c].forced \/ ~HoldsUnexpiredToken))
          /\ (calls'[c].sent = Append(calls[c].sent, "auth-token")) =>
                /\ Authenticates(c)
                /\ syncpay' = NoToken

\* C19, as amended: authenticate sends an auth-token request exactly when the
\* refresh is forced or the service holds no unexpired token (unexpired:
\* until 300 seconds before the reported expiry); the three fields are all
\* set or all absent in every state; and a failed authentication request
\* leaves them as they were, which is absent unless the authentication of
\* another call has succeeded since the failed request was sent, and then
\* they are the whole data of that call's token.
FailedAuthenticationLeavesNoPartialToken ==
    [][/\ AuthenticatesWhenDue
       /\ \A c \in Calls :
             (calls[c].pc = "auth" /\ calls'[c].pc = "done") =>
                 /\ syncpay' = syncpay
                 /\ \/ syncpay' = NoToken
                    \/ \E d \in Calls \ {c} : syncpay'.accessToken = AccessToken(d)]_vars

\* C19, as stated: the same, but with the three fields absent after every
\* failed authentication request, also under calls that overlap.
FailedAuthenticationLeavesNoToken ==
    [][/\ AuthenticatesWhenDue
       /\ \A c \in Calls :
             (calls[c].pc = "auth" /\ calls'[c].pc = "done") =>
                 syncpay' = NoToken]_vars

\* C19, its case: the authentication request of a call has failed while the
\* service holds the whole token data that another call obtained.
AuthenticationFailedNextToFreshToken ==
    \E c \in Calls :
        /\ calls[c].pc = "done"
        /\ calls[c].error \in {AuthError(upstream) : upstream \in UpstreamErrors}
        /\ calls[c].sent = <<"auth-token">>
        /\ \E d \in Calls \ {c} :
              /\ syncpay.accessToken = AccessToken(d)
              /\ syncpay.authorization = <<"Bearer ", AccessToken(d)>>
              /\ calls[d].pc = "cash-in"
              /\ calls[d].sent = <<"auth-token", "cash-in">>

\* C20: a call of createPixPayment of either service with an amount below
\* 50 cents throws the minimum-amount error with no request sent, and for
\* SyncPay with the token data untouched; a call with 50 cents or more gets
\* past the check to its first request; and no call throws the
\* minimum-amount error later on.
SmallAmountIsRejectedUpFront ==
    [][\A c \in Calls :
          LET call == calls[c]
              next == calls'[c]
          IN  /\ (call.pc = "idle" /\ next.pc # "idle" /\ next.amount < 50) =>
                    /\ next.pc = "done"
                    /\ next.error = MinimumError
                    /\ ~next.returned
                    /\ next.sent = <<>>
                    /\ next.replies = <<>>
                    /\ syncpay' = syncpay
              /\ (call.pc = "idle" /\ next.pc # "idle" /\ next.amount >= 50) =>
                    /\ next.error # MinimumError
                    /\ next.pc \in {"auth", "cash-in"}
                    /\ Len(next.sent) = 1
              /\ (call.pc # "idle" /\ next.error = MinimumError) =>
                    call.error = MinimumError]_vars

\* C20, its case: while the service holds a token, a SyncPay call with 49
\* cents was turned away with nothing sent and the token left in place, and
\* a PushinPay call with 50 cents has sent its request.
SmallAmountWasTurnedAway ==
    \E c \in Calls, d \in Calls :
        /\ calls[c].service = "syncpay"
        /\ calls[c].amount = 49
        /\ calls[c].pc = "done"
        /\ calls[c].error = MinimumError
        /\ calls[c].sent = <<>>
        /\ syncpay # NoToken
        /\ calls[d].service = "pushinpay"
        /\ calls[d].amount = 50
        /\ calls[d].sent = <<"cashIn">>

(***************************************************************************)
(* Properties of GET /api/payments/order/:orderId.                         *)
(***************************************************************************)
\* C21: a request for the id of a row of the orders table is answered with
\* the order, as the row holds it, when req.user is the owner of the order or
\* has the role ADMIN, and otherwise with 403 and no order; a request for an
\* id that no row has, and that is no token, is answered with 404 and no
\* order.
OrderIsReturnedToOwnerOrAdmin ==
    [][(lookup' # lookup /\ ~StartsWith(lookup'.asked, TxnPrefix)) =>
          LET row == FindOrder(orders, lookup'.asked)
          IN  IF row = 0
              THEN lookup'.code = 404 /\ lookup'.order = NoOrder
              ELSE IF orders[row].userId = lookup'.by \/ lookup'.role = "ADMIN"
              THEN /\ lookup'.code = 200
                   /\ lookup'.order.id = orders[row].id
                   /\ lookup'.order.userId = orders[row].userId
                   /\ lookup'.order.status = orders[row].status
                   /\ lookup'.order.downloadLink = orders[row].downloadLink
              ELSE /\ lookup'.code = 403
                   /\ lookup'.error = "Acesso negado"
                   /\ lookup'.order = NoOrder]_vars

\* C21, its case: a guest asked for the completed order of a customer and
\* got 403 without the order and its download link.
GuestWasDeniedCompletedOrder ==
    /\ lookup.role = "GUEST"
    /\ lookup.code = 403
    /\ lookup.order = NoOrder
    /\ \E n \in 1..Len(orders) :
          /\ lookup.asked = orders[n].id
          /\ orders[n].userId # lookup.by
          /\ orders[n].status = "COMPLETED"
          /\ orders[n].downloadLink # Null

\* C22: a request for the token of a diverted payment is answered with an
\* order that is COMPLETED and carries the delivery link of the token when
\* the gateway reports the transaction 'paid', and with an order that is
\* PENDING without a download link for 'created' and for 'expired'; the
\* order is never FAILED, and its price fields are those of the record that
\* the token was made from.
GhostOrderCompletesOnlyWhenPaid ==
    [][\A t \in LookupTokens :
          (lookup' # lookup /\ lookup'.asked = t.token) =>
              /\ lookup'.gateway = "paid" =>
                    /\ lookup'.code = 200
                    /\ lookup'.order.status = "COMPLETED"
                    /\ lookup'.order.downloadLink = t.made.downloadLink
              /\ lookup'.gateway \in {"created", "expired"} =>
                    /\ lookup'.code = 200
                    /\ lookup'.order.status = "PENDING"
                    /\ lookup'.order.downloadLink = Null
              /\ lookup'.code = 200 =>
                    /\ lookup'.order.id = lookup'.asked
                    /\ lookup'.order.status \in {"COMPLETED", "PENDING"}
                    /\ lookup'.order.price = t.made.price
              /\ lookup'.code # 200 => lookup'.order = NoOrder]_vars

\* C22, its case: the gateway reported the transaction of a token with a
\* delivery link 'expired', and the answer is a PENDING order without the
\* link and with the price of the token.
ExpiredGhostOrderWasPending ==
    \E t \in LookupTokens :
        /\ t.made.downloadLink # Null
        /\ lookup.asked = t.token
        /\ lookup.gateway = "expired"
        /\ lookup.code = 200
        /\ lookup.order.status = "PENDING"
        /\ lookup.order.downloadLink = Null
        /\ lookup.order.price = t.made.price

\* C23: an initiate-payment request that fails the checks of its input is
\* answered, in this order of precedence, 400 for a missing priceId, 401 for
\* no authenticated user, 400 for a gateway other than pushinpay and
\* syncpay, and 400 for a syncpay request that lacks any of clientName,
\* clientCpf, clientEmail and clientPhone; the handler ends there with no
\* order made and no gateway called, for every diversion draw, the draw
\* that diverts to PushinPay included; and the step that answers so leaves
\* the orders and the gateway calls as they are.
InvalidRequestIsRejected ==
    [][/\ \A body \in Bodies, userId \in Users \cup {"undefined"}, draw \in Draws :
             LET gateway   == IF body.gateway = "undefined" THEN "pushinpay" ELSE body.gateway
                 noPrice   == body.priceId = "undefined"
                 noUser    == userId = "undefined"
                 noGateway == gateway \notin {"pushinpay", "syncpay"}
                 noClient  == /\ gateway = "syncpay"
                              /\ \E field \in DOMAIN body.clientInfo : ~body.clientInfo[field]
                 next      == InitiateHandler(body, userId, draw)
                 turnedAway(code) == /\ next.pc = "done"
                                     /\ next.code = code
                                     /\ next.made = 0
                                     /\ next.call = NoCall
                                     /\ next.answered = "none"
             IN  /\ noPrice => turnedAway(400)
                 /\ (~noPrice /\ noUser) => turnedAway(401)
                 /\ (~noPrice /\ ~noUser /\ noGateway) => turnedAway(400)
                 /\ (~noPrice /\ ~noUser /\ ~noGateway /\ noClient) =>
                       /\ turnedAway(400)
                       /\ next.error = "Para pagamentos via SyncPay, e necessario fornecer"
                 /\ (noPrice \/ noUser \/ noGateway \/ noClient) =>
                       next = InitiateHandler(body, userId, 0)
       /\ \A r \in Requests :
             (/\ requests[r].pc \in {"idle", "done"}
              /\ requests'[r] # requests[r]
              /\ requests'[r].pc = "done"
              /\ requests'[r].error \in {"priceId e obrigatorio",
                                         "Autenticacao de usuario necessaria",
                                         "Gateway invalido",
                                         "Para pagamentos via SyncPay, e necessario fornecer"}) =>
                 /\ orders' = orders
                 /\ calls' = calls
                 /\ requests'[r].made = 0
                 /\ requests'[r].call = NoCall]_vars

\* C23, its case: while an order is stored, a syncpay request that lacks a
\* client field has been answered 400 with no order made and no gateway
\* called.
SyncPayRequestWithoutClientWasRejected ==
    \E r \in Requests :
        /\ requests[r].pc = "done"
        /\ requests[r].code = 400
        /\ requests[r].error = "Para pagamentos via SyncPay, e necessario fornecer"
        /\ requests[r].made = 0
        /\ requests[r].call = NoCall
        /\ Len(orders) = 1

====
